---------------------------- MODULE Spec2Model ----------------------------
(***************************************************************************)
(* MarketMind: the query pipeline (batch and stream), the provider         *)
(* framework with its daily budgets, and the ingestion worker.             *)
(*                                                                         *)
(* Three specifications share the variables of this module; each leaves    *)
(* the variables of the other two untouched:                               *)
(*   SpecQuery      one execution of /search/stream or /search/query       *)
(*   SpecProviders  enrichment runs against the provider daily budgets     *)
(*   SpecIngest     execute_ingest jobs on a registered source             *)
(***************************************************************************)
EXTENDS Integers, Sequences, FiniteSets, TLC

VARIABLES
    \* ---- query pipeline (core/pipeline/stream.py, api/routes/search.py)
    spc,            \* where the stream generator is suspended (last stage it yielded)
    loop,           \* items yielded so far by the starred loop the generator is in
    gen,            \* generate(): "pull" (in its loop) or "closed"
    closedBy,       \* why generate() ended
    events,         \* stages delivered to the client, in order
    disconnected,   \* request.is_disconnected() was seen true
    discAt,         \* number of events delivered when the client went away, -1 if it did not
    deadlinePassed, \* time.monotonic() - start_time > pipeline_timeout was seen true
    hasTicker,      \* query_context["ticker"] is set
    nEvidence,      \* len(top_evidence)
    citations,      \* len(citations) of the report / complete payload, -1 before
    search_queries, \* rows of search_queries written by this execution
    search_evidence,\* rows of search_evidence written by this execution
    degraded,       \* the failures the pipeline absorbed, in order
    excCause,       \* what raised out of the pipeline ("none" if nothing)
    batchResult,    \* run_market_intelligence_query: "none", "report", "raised"
    \* ---- provider framework (connectors/providers, core/source_discovery.py)
    today,          \* the date date.today() returns, as a day number
    requests,       \* outbound API requests made today by each budgeted provider
    runs,           \* enrichment operations started in this process so far
    lastRun,        \* what the latest run_full_enrichment did and returned
    \* ---- ingestion worker (workers/tasks_ingest.py, core/db/sources.py)
    now,            \* the clock, in seconds
    ingest_runs,    \* table ingest_runs, oldest row first
    failed_ingestions,          \* table failed_ingestions, oldest row first
    source_snapshots,           \* table source_snapshots, oldest row first
    insights,                   \* table insights, oldest row first
    memory_chunks,              \* table memory_chunks: its (source_id, content_hash) keys
    source_evidence_relations,  \* table source_evidence_relations: its keys
    invocations,    \* execute_ingest calls made so far
    lastIngest,     \* what the latest execute_ingest call met and did
    streak,         \* the run of successive succeeded ingests of one content
    \* ---- run_ingest jobs (workers/tasks_ingest.py, the celery task)
    job,            \* the run_ingest task message in the queue, if any
    jobs,           \* run_ingest.delay calls made so far
    lastAttempt,    \* what the latest execution of run_ingest met and did
    \* ---- source deletion (workers/tasks_compliance.py, core/db/retention.py)
    deleted,        \* the sources whose deleted_at is set
    reports,        \* table reports: the number of rows of each source
    search_evidence_table,  \* table search_evidence: the number of rows of each source
    deletion_requests,      \* table deletion_requests, by id
    lastDeletion,   \* what the latest execute_deletion_request met and did
    \* ---- financial periods (core/db/financials.py)
    financial_periods,      \* table financial_periods: its rows
    upserts,        \* upsert_financial_period calls made so far
    lastUpsert,     \* the latest call and the one before it, with the tables they met
    \* ---- entities (core/entities.py)
    entities,       \* table entities: its rows
    resolving,      \* each caller of resolve_entity: idle, or what it is about to upsert
    resolves,       \* resolve_entity calls started so far
    lastEntityWrite,\* what the latest _upsert_entity met and stored
    \* ---- LLM calls (core/llm/providers.py, core/llm/generators.py)
    semaphore,      \* the module global _semaphore: 0 for None, else a Semaphore object
    sems,           \* the Semaphore objects created so far: value, bound loop, waiters
    pc,             \* where each call of ollama_generate_async is
    sem_of,         \* the Semaphore object each call got from _get_semaphore, 0 before
    \* ---- source policy (security/policy_engine.py)
    policy,         \* the latest call of validate_source_policy and how it ended
    \* ---- scenarios (core/pipeline/enrichment.py, core/pipeline/intelligence.py)
    scenario,       \* the latest scenarios built and what they were built from
    \* ---- chunking (core/processing.py)
    chunking,       \* the latest call of chunk_text and what it returned
    \* ---- ingestion jobs side by side (workers/tasks_ingest.py, core/db/sources.py)
    worker,         \* each worker process: idle, or where its execute_ingest call is
    starts,         \* run_ingest tasks the workers have taken so far
    ended,          \* how the job that ended latest ended
    overlapped,     \* a job was taken while another was in flight
    revived,        \* the sources whose deleted_at an add_source has set back to NULL
    \* ---- the throttle as time goes on (workers/tasks_ingest.py, core/db/sources.py)
    recent          \* the age in seconds of the latest ingest run of each status, -1 if none

queryVars == <<spc, loop, gen, closedBy, events, disconnected, discAt,
               deadlinePassed, hasTicker, nEvidence, citations, search_queries,
               search_evidence, degraded, excCause, batchResult>>

provVars == <<today, requests, runs, lastRun>>

tables == <<ingest_runs, failed_ingestions, source_snapshots, insights,
            memory_chunks, source_evidence_relations>>

ingestVars == <<now, tables, invocations, lastIngest, streak>>

retryVars == <<job, jobs, lastAttempt>>

(* The variables of the specifications that follow the first three. *)
deletionVars == <<deleted, reports, search_evidence_table, deletion_requests,
                  lastDeletion>>

financialVars == <<financial_periods, upserts, lastUpsert>>

entityVars == <<entities, resolving, resolves, lastEntityWrite>>

llmVars == <<semaphore, sems, pc, sem_of>>

policyVars == <<policy>>

scenarioVars == <<scenario>>

chunkVars == <<chunking>>

workerVars == <<worker, starts, ended, overlapped, revived>>

throttleVars == <<recent>>

restVars == <<chunkVars, workerVars, throttleVars>>

laterVars == <<llmVars, policyVars, scenarioVars, restVars>>

otherVars == <<retryVars, deletionVars, financialVars, entityVars, laterVars>>

vars == <<queryVars, provVars, ingestVars, otherVars>>

-----------------------------------------------------------------------------
(* Bounds *)

MaxTokens == 1          \* tokens one LLM stream yields at most
MaxProviderResults == 2 \* entries of providers_run at most
MaxEvidence == 9        \* len(top_evidence) at most (limit is at most 50)
MaxFaults == 1          \* collaborator failures in one execution at most
MaxRuns == 8            \* enrichment operations in one process at most
MaxDays == 1            \* date rollovers at most
MaxInvocations == 3     \* execute_ingest calls at most
MaxTicks == 2           \* clock ticks at most
TickSeconds == 30       \* seconds in one clock tick
MaxJobs == 2            \* run_ingest.delay calls at most
MaxRequests == 1        \* deletion requests created at most
MaxIngestsStored == 1   \* execute_ingest calls that fill the store for a deletion
MaxRows == 1            \* rows of one source in reports and in search_evidence at most
MaxUpserts == 2         \* upsert_financial_period calls at most
MaxResolves == 3        \* resolve_entity calls at most
MaxQueries == 2         \* run_market_intelligence_query calls in one process at most
MaxEnrichments == 2     \* run_full_enrichment calls followed one by one at most
MaxStarts == 3          \* run_ingest tasks taken by the workers at most

(* Program constants *)

CitationLimit == 8      \* citations are top_evidence[:8]
AlphaVantageDailyLimit == 25   \* AlphaVantageProvider._daily_limit
FmpDailyLimit == 250           \* FmpProvider._daily_limit
ingest_min_interval_seconds == 60   \* Settings.ingest_min_interval_seconds
max_retries == 3               \* run_ingest: self.retry(..., max_retries=3)
ollama_max_concurrent == 2     \* Settings.ollama_max_concurrent
gather_prompts == 3            \* generate_parallel_intelligence: the prompts always gathered

-----------------------------------------------------------------------------
(* The environment of one step of the pipeline: which collaborator fails   *)
(* and what the data look like.                                            *)

NoFail == [repoFails |-> FALSE, providerFails |-> FALSE, llmFails |-> FALSE,
           semFails |-> FALSE, graphFails |-> FALSE, fetchFails |-> FALSE,
           addFails |-> FALSE, refresh |-> FALSE, histAvail |-> FALSE,
           more |-> FALSE, n |-> 0]

Min(a, b) == IF a <= b THEN a ELSE b

(* The sizes of top_evidence that are tried: none, exactly the citation   *)
(* limit, and the largest. *)
EvidenceCounts == {0, CitationLimit, MaxEvidence}

EnvFor(pos) ==
    CASE pos = "enrichment_started" ->
           {[NoFail EXCEPT !.repoFails = a, !.refresh = b, !.providerFails = c,
                           !.more = d, !.addFails = e] : a, b, c, d, e \in BOOLEAN}
      [] pos = "provider_complete" ->
           {[NoFail EXCEPT !.more = d, !.addFails = e] : d, e \in BOOLEAN}
      [] pos = "retrieval_started" ->
           {[NoFail EXCEPT !.repoFails = a, !.semFails = b, !.graphFails = c] :
                a, b, c \in BOOLEAN}
      [] pos = "retrieval_complete" ->
           {[NoFail EXCEPT !.n = k] : k \in EvidenceCounts}
      [] pos \in {"analyst_consensus_started", "market_news_started",
                  "insider_activity_started", "price_history_started"} ->
           {[NoFail EXCEPT !.fetchFails = a] : a \in BOOLEAN}
      [] pos = "historical_started" ->
           {[NoFail EXCEPT !.histAvail = a] : a \in BOOLEAN}
      [] pos \in {"trend_analysis_started", "scenarios_started"} ->
           {[NoFail EXCEPT !.llmFails = a] : a \in BOOLEAN}
      [] pos \in {"analyzing", "decision_token", "narrative_started",
                  "narrative_token", "competitive_started", "competitive_token"} ->
           {[NoFail EXCEPT !.llmFails = a, !.more = b] : a, b \in BOOLEAN}
      [] pos = "price_history" ->
           {[NoFail EXCEPT !.repoFails = a] : a \in BOOLEAN}
      [] OTHER -> {NoFail}

(* The number of collaborators that fail in one environment, and the      *)
(* environments that keep an execution within MaxFaults failures.         *)
Faults(env) ==
    Cardinality({f \in {"repoFails", "addFails", "providerFails", "llmFails",
                        "semFails", "graphFails", "fetchFails"} : env[f]})

Admissible(envs, absorbed) ==
    {env \in envs : Len(absorbed) + Faults(env) <= MaxFaults}

(* What one resumption of the generator does. *)
Yield(stage, deg) == [kind |-> "yield", stage |-> stage, deg |-> deg,
                      cause |-> "none", save |-> FALSE]
Raise(cause)      == [kind |-> "raise", stage |-> "none", deg |-> <<>>,
                      cause |-> cause, save |-> FALSE]
Return            == [kind |-> "return", stage |-> "none", deg |-> <<>>,
                      cause |-> "none", save |-> FALSE]


-----------------------------------------------------------------------------
(* core/pipeline/retrieval.py: the text search is a repository query and   *)
(* is not guarded; the semantic and the graph branch are.                  *)

HybridRetrieve_unguarded(env) ==
    IF env.repoFails THEN [raised |-> TRUE, cause |-> "repository", deg |-> <<>>]
    ELSE IF env.semFails THEN [raised |-> TRUE, cause |-> "semantic", deg |-> <<>>]
    ELSE [raised |-> FALSE, cause |-> "none",
          deg |-> IF env.graphFails THEN <<"branch">> ELSE <<>>]

HybridRetrieve(env) ==
    IF env.repoFails THEN [raised |-> TRUE, cause |-> "repository", deg |-> <<>>]
    ELSE [raised |-> FALSE, cause |-> "none",
          deg |-> (IF env.semFails THEN <<"branch">> ELSE <<>>)
                  \o (IF env.graphFails THEN <<"branch">> ELSE <<>>)]

(* Stage 2: enrichment, inside one try block that turns any exception     *)
(* into a warning event.                                                   *)
EnrichmentStage(pos, lp, env) ==
    LET discovery == IF env.addFails
                       THEN Yield("warning", <<"repository">>)
                       ELSE Yield("enrichment_complete", <<>>)
        provDeg == IF env.providerFails THEN <<"provider">> ELSE <<>>
    IN CASE pos = "query_parsed" -> Yield("enrichment_started", <<>>)
         [] pos = "enrichment_started" ->
              IF env.repoFails THEN Yield("warning", <<"repository">>)
              ELSE IF ~env.refresh THEN Yield("enrichment_complete", <<>>)
              ELSE IF env.more THEN Yield("provider_complete", provDeg)
              ELSE [discovery EXCEPT !.deg = @ \o provDeg]
         [] pos = "provider_complete" ->
              IF env.more /\ lp < MaxProviderResults
                THEN Yield("provider_complete", <<>>)
                ELSE discovery
         [] pos = "warning" -> Yield("enrichment_complete", <<>>)

(* Stage 3 and 4: hybrid retrieval and ranking. *)
RetrievalStage(pos, env) ==
    CASE pos = "enrichment_complete" -> Yield("retrieval_started", <<>>)
      [] pos = "retrieval_started" ->
           LET r == HybridRetrieve(env)
           IN IF r.raised THEN Raise(r.cause) ELSE Yield("retrieval_complete", r.deg)
      [] pos = "retrieval_complete" -> Yield("ranking_complete", <<>>)

(* Stages 5 to 10b: the data sections; the three yfinance sections are     *)
(* emitted only for a resolved ticker and dropped when their fetch raises. *)
SectionsStage(pos, ticker, env) ==
    CASE pos = "ranking_complete" -> Yield("financial_snapshot_started", <<>>)
      [] pos = "financial_snapshot_started" -> Yield("financial_snapshot", <<>>)
      [] pos = "financial_snapshot" ->
           IF ticker THEN Yield("analyst_consensus_started", <<>>)
                     ELSE Yield("historical_started", <<>>)
      [] pos = "analyst_consensus_started" ->
           IF env.fetchFails THEN Yield("historical_started", <<"section">>)
                             ELSE Yield("analyst_consensus", <<>>)
      [] pos = "analyst_consensus" -> Yield("historical_started", <<>>)
      [] pos = "historical_started" ->
           IF env.histAvail /\ ticker THEN Yield("trend_analysis_started", <<>>)
                                      ELSE Yield("historical_trends", <<>>)
      [] pos = "trend_analysis_started" ->
           Yield("historical_trends", IF env.llmFails THEN <<"llm">> ELSE <<>>)
      [] pos = "historical_trends" -> Yield("macro_started", <<>>)
      [] pos = "macro_started" -> Yield("macro_context", <<>>)
      [] pos = "macro_context" -> Yield("sentiment_started", <<>>)
      [] pos = "sentiment_started" -> Yield("social_sentiment", <<>>)
      [] pos = "social_sentiment" ->
           IF ticker THEN Yield("market_news_started", <<>>) ELSE Yield("coverage", <<>>)
      [] pos = "market_news_started" ->
           IF env.fetchFails THEN Yield("coverage", <<"section">>)
                             ELSE Yield("market_news", <<>>)
      [] pos = "market_news" -> Yield("coverage", <<>>)
      [] pos = "coverage" -> Yield("filings_started", <<>>)
      [] pos = "filings_started" -> Yield("filings", <<>>)
      [] pos = "filings" ->
           IF ticker THEN Yield("insider_activity_started", <<>>)
                     ELSE Yield("analyzing", <<>>)
      [] pos = "insider_activity_started" ->
           IF env.fetchFails THEN Yield("analyzing", <<"section">>)
                             ELSE Yield("insider_activity", <<>>)
      [] pos = "insider_activity" -> Yield("analyzing", <<>>)

(* One turn of a token loop over ollama_generate_stream: the stream ends   *)
(* when the model is done or when the call fails (the exception is caught  *)
(* inside the stream).                                                     *)
TokenLoop(pos, token, ready, lp, env) ==
    IF env.llmFails THEN Yield(ready, <<"llm">>)
    ELSE IF env.more /\ (pos # token \/ lp < MaxTokens) THEN Yield(token, <<>>)
    ELSE Yield(ready, <<>>)

(* Stages 11 to 14: the LLM sections. *)
GenerationStage(pos, lp, env) ==
    CASE pos \in {"analyzing", "decision_token"} ->
           TokenLoop(pos, "decision_token", "decision_ready", lp, env)
      [] pos = "decision_ready" -> Yield("narrative_started", <<>>)
      [] pos \in {"narrative_started", "narrative_token"} ->
           TokenLoop(pos, "narrative_token", "narrative_ready", lp, env)
      [] pos = "narrative_ready" -> Yield("scenarios_started", <<>>)
      [] pos = "scenarios_started" ->
           Yield("scenarios_ready", IF env.llmFails THEN <<"llm">> ELSE <<>>)
      [] pos = "scenarios_ready" -> Yield("competitive_started", <<>>)
      [] pos \in {"competitive_started", "competitive_token"} ->
           TokenLoop(pos, "competitive_token", "competitive_landscape", lp, env)

FinalStage_skip(pos, ticker, env) ==
    CASE pos = "competitive_landscape" ->
           IF ticker THEN Yield("price_history_started", <<>>)
                     ELSE [Yield("complete", <<>>) EXCEPT !.save = TRUE]
      [] pos = "price_history_started" ->
           Yield("price_history", IF env.fetchFails THEN <<"section">> ELSE <<>>)
      [] pos = "price_history" ->
           IF env.repoFails THEN Raise("repository")
           ELSE [Yield("complete", <<>>) EXCEPT !.save = TRUE]
      [] pos = "complete" -> Return

(* Stage 15, the graph lookup, the persistence and the last event. *)
FinalStage(pos, ticker, env) ==
    CASE pos = "competitive_landscape" ->
           IF ticker THEN Yield("price_history_started", <<>>)
                     ELSE Yield("price_history", <<>>)
      [] pos = "price_history_started" ->
           Yield("price_history", IF env.fetchFails THEN <<"section">> ELSE <<>>)
      [] pos = "price_history" ->
           IF env.repoFails THEN Raise("repository")
           ELSE [Yield("complete", <<>>) EXCEPT !.save = TRUE]
      [] pos = "complete" -> Return

EnrichmentPos == {"query_parsed", "enrichment_started", "provider_complete", "warning"}
RetrievalPos == {"enrichment_complete", "retrieval_started", "retrieval_complete"}
GenerationPos == {"analyzing", "decision_token", "decision_ready", "narrative_started",
                  "narrative_token", "narrative_ready", "scenarios_started",
                  "scenarios_ready", "competitive_started", "competitive_token"}
FinalPos == {"competitive_landscape", "price_history_started", "price_history",
             "complete"}

(* run_market_intelligence_query_stream: from the point where the          *)
(* generator is suspended to its next yield, raise or return.              *)
StreamStep(pos, ticker, lp, env) ==
    CASE pos = "start" -> Yield("query_parsed", <<>>)
      [] pos \in EnrichmentPos -> EnrichmentStage(pos, lp, env)
      [] pos \in RetrievalPos -> RetrievalStage(pos, env)
      [] pos \in GenerationPos -> GenerationStage(pos, lp, env)
      [] pos \in FinalPos -> FinalStage(pos, ticker, env)
      [] OTHER -> SectionsStage(pos, ticker, env)

-----------------------------------------------------------------------------
(* The progress of the events.  Progress is counted in thousandths.        *)

(* The progress literal each _event call of the stream is given. *)
ProgressOf(stage) ==
    CASE stage = "query_parsed" -> 50
      [] stage = "enrichment_started" -> 80
      [] stage = "provider_complete" -> 120
      [] stage = "warning" -> 180
      [] stage = "enrichment_complete" -> 200
      [] stage = "retrieval_started" -> 220
      [] stage = "retrieval_complete" -> 300
      [] stage = "ranking_complete" -> 350
      [] stage = "financial_snapshot_started" -> 380
      [] stage = "financial_snapshot" -> 420
      [] stage = "analyst_consensus_started" -> 430
      [] stage = "analyst_consensus" -> 435
      [] stage = "historical_started" -> 440
      [] stage = "trend_analysis_started" -> 460
      [] stage = "historical_trends" -> 500
      [] stage = "macro_started" -> 520
      [] stage = "macro_context" -> 560
      [] stage = "sentiment_started" -> 580
      [] stage = "social_sentiment" -> 620
      [] stage = "market_news_started" -> 630
      [] stage = "market_news" -> 640
      [] stage = "coverage" -> 650
      [] stage = "filings_started" -> 670
      [] stage = "filings" -> 700
      [] stage = "insider_activity_started" -> 710
      [] stage = "insider_activity" -> 715
      [] stage = "analyzing" -> 720
      [] stage = "decision_token" -> 740
      [] stage = "decision_ready" -> 780
      [] stage = "narrative_started" -> 800
      [] stage = "narrative_token" -> 820
      [] stage = "narrative_ready" -> 850
      [] stage = "scenarios_started" -> 870
      [] stage = "scenarios_ready" -> 900
      [] stage = "competitive_started" -> 910
      [] stage = "competitive_token" -> 920
      [] stage = "competitive_landscape" -> 930
      [] stage = "price_history_started" -> 940
      [] stage = "price_history" -> 950
      [] stage = "complete" -> 1000

(* The literals d.dd5 whose double lies below the decimal tie, or on it     *)
(* with an even hundredth before it: round(x, 2) rounds these down, and    *)
(* the other literals d.dd5 up.                                            *)
RoundsDown ==
    {15, 45, 75, 105, 125, 145, 155, 175, 185, 205, 215, 235, 245, 285,
     295, 305, 345, 355, 365, 415, 425, 435, 475, 485, 495, 565, 575, 585,
     595, 605, 615, 625, 695, 705, 715, 725, 735, 745, 815, 825, 835, 845,
     855, 865, 945, 955, 965, 975, 985, 995}

(* round(progress, 2) of _event. *)
round2(t) ==
    LET r == t % 10
    IN IF r < 5 THEN t - r
       ELSE IF r > 5 THEN t - r + 10
       ELSE IF t \in RoundsDown THEN t - 5 ELSE t + 5

(* The progress field of a delivered event, with an error event that      *)
(* carries no progress of its own.                                         *)
EventProgress_error_zero(stage) ==
    IF stage = "error" THEN 0 ELSE round2(ProgressOf(stage))

(* The progress field of a delivered event: _event rounds its literal, and *)
(* generate() writes the error event itself, with progress 1.0.            *)
EventProgress(stage) ==
    IF stage = "error" THEN 1000 ELSE round2(ProgressOf(stage))

(* core/db/search_history.py: one search_queries row, one search_evidence  *)
(* row per evidence item, in one transaction.                              *)
SaveSearchResult_cited(rows, items) ==
    [queries |-> rows.queries + 1, evidence |-> rows.evidence + Min(items, CitationLimit)]

SaveSearchResult(rows, items) ==
    [queries |-> rows.queries + 1, evidence |-> rows.evidence + items]

(* The citations of the complete event and of the batch report. *)
Citations(items) == Min(items, CitationLimit)

(* api/routes/search.py, generate(): the checks made on every event the    *)
(* pipeline hands over.                                                    *)
GenerateCheck_noreturn(isDisc, timedOut, ev) ==
    IF isDisc THEN [deliver |-> <<>>, closedBy |-> "disconnect"]
    ELSE IF timedOut THEN [deliver |-> <<"error">>, closedBy |-> "none"]
    ELSE [deliver |-> <<ev>>, closedBy |-> "none"]

GenerateCheck(isDisc, timedOut, ev) ==
    IF isDisc THEN [deliver |-> <<>>, closedBy |-> "disconnect"]
    ELSE IF timedOut THEN [deliver |-> <<"error">>, closedBy |-> "deadline"]
    ELSE [deliver |-> <<ev>>, closedBy |-> "none"]

(* core/pipeline/intelligence.py, run_market_intelligence_query: the       *)
(* repository calls (search_insights_by_query, add_source, the text search,*)
(* save_search_result) are not guarded, everything else is.                *)
BatchRun(env) ==
    IF env.repoFails THEN [raised |-> TRUE, cause |-> "repository", deg |-> <<>>]
    ELSE LET r == HybridRetrieve(env)
         IN IF r.raised THEN r
            ELSE [r EXCEPT !.deg = @ \o (IF env.providerFails THEN <<"provider">> ELSE <<>>)
                                     \o (IF env.llmFails THEN <<"llm">> ELSE <<>>)]

BatchEnv ==
    {[NoFail EXCEPT !.repoFails = a, !.providerFails = b, !.llmFails = c,
                    !.semFails = d, !.graphFails = e, !.n = k] :
        a, b, c, d, e \in BOOLEAN, k \in EvidenceCounts}

Starred == {"provider_complete", "decision_token", "narrative_token", "competitive_token"}

-----------------------------------------------------------------------------
(* connectors/providers/base_provider.py and core/source_discovery.py      *)

(* The providers of _get_configured_providers, in its order; sec_edgar     *)
(* stands for the providers without a daily limit.                         *)
ProviderOrder == <<"sec_edgar", "fmp", "alpha_vantage">>
Providers == {ProviderOrder[i] : i \in 1..Len(ProviderOrder)}
Budgeted == {"fmp", "alpha_vantage"}

DailyLimit == [p \in Providers |->
                 CASE p = "fmp" -> FmpDailyLimit
                   [] p = "alpha_vantage" -> AlphaVantageDailyLimit
                   [] OTHER -> 0]

(* The class attributes every provider object starts from: no assignment  *)
(* in the program ever writes them.                                        *)
ClassCallsToday == 0
ClassLastResetDate == -1

(* FmpProvider(), AlphaVantageProvider(), ...: a new object, whose         *)
(* attribute reads fall through to the class attributes.                   *)
NewProvider(p) == [name |-> p, daily_limit |-> DailyLimit[p],
                   calls_today |-> ClassCallsToday,
                   last_reset_date |-> ClassLastResetDate]

ResetIfNewDay(inst, day) ==
    IF inst.last_reset_date # day
      THEN [inst EXCEPT !.calls_today = 0, !.last_reset_date = day]
      ELSE inst

rate_limit_ok(inst, day) ==
    IF inst.daily_limit <= 0 THEN [ok |-> TRUE, inst |-> inst]
    ELSE LET i2 == ResetIfNewDay(inst, day)
         IN [ok |-> i2.calls_today < i2.daily_limit, inst |-> i2]

track_call(inst, day) ==
    [ResetIfNewDay(inst, day) EXCEPT !.calls_today = @ + 1]

(* _get of FmpProvider and AlphaVantageProvider, n times in a row: each    *)
(* call that passes rate_limit_ok is counted and sent.                     *)
RECURSIVE ProviderGet(_, _, _)
ProviderGet(inst, day, n) ==
    IF n = 0 THEN [inst |-> inst, sent |-> 0]
    ELSE LET r == rate_limit_ok(inst, day)
             one == IF r.ok THEN [inst |-> track_call(r.inst, day), sent |-> 1]
                            ELSE [inst |-> r.inst, sent |-> 0]
             rest == ProviderGet(one.inst, day, n - 1)
         IN [inst |-> rest.inst, sent |-> one.sent + rest.sent]

CallsPerSnapshot == 2   \* fetch_profile and fetch_ratios_ttm

DataTypes(p) ==
    CASE p = "fmp" -> <<"income_statement", "balance_sheet", "cash_flow", "key_metrics">>
      [] p = "alpha_vantage" -> <<"income_statement", "balance_sheet", "cash_flow",
                                  "earnings">>
      [] OTHER -> <<"financials", "filings">>

CallsPerFetch == 4      \* one API call per data type of fmp and alpha_vantage

Entry(p, type, records) ==
    [provider |-> p, data_type |-> type, records_stored |-> records,
     success |-> records > 0]

(* fetch_company_data of one provider.  hit: its requests are answered     *)
(* with data; raiseAt: the number of requests after which it raises, -1    *)
(* if it does not.  Only the requests that go through _get are counted.    *)
fetch_company_data(inst, day, ticker, hit, raiseAt) ==
    IF ~ticker
      THEN [raised |-> FALSE, sent |-> 0, entries |-> <<Entry(inst.name, "all", 0)>>]
    ELSE LET types == DataTypes(inst.name)
             all == IF inst.name \in Budgeted THEN Len(types) ELSE 0
             g == ProviderGet(inst, day, IF raiseAt >= 0 THEN Min(raiseAt, all) ELSE all)
             answered(i) == hit /\ (inst.name \in Budgeted => i <= g.sent)
         IN [raised |-> raiseAt >= 0, sent |-> g.sent,
             entries |-> [i \in 1..Len(types) |->
                            Entry(inst.name, types[i], IF answered(i) THEN 1 ELSE 0)]]

NoRequests == [p \in Budgeted |-> 0]

EmptyRun == [ran |-> FALSE, before |-> NoRequests, sent |-> NoRequests,
             invoked |-> {}, providers_run |-> <<>>, total_records |-> 0,
             entity |-> FALSE, attempted |-> <<>>, failed |-> {},
             coverage_updated |-> FALSE, coverage |-> "none"]

RECURSIVE SumRecords(_)
SumRecords(entries) ==
    IF entries = <<>> THEN 0
    ELSE Head(entries).records_stored + SumRecords(Tail(entries))

(* The dispatch loop of run_full_enrichment over providers[i..], leaving   *)
(* the loop at the first exception.                                        *)
RECURSIVE Dispatch_abort(_, _, _, _, _, _, _)
Dispatch_abort(i, day, ticker, hits, raiser, raiseAt, acc) ==
    IF i > Len(ProviderOrder) THEN acc
    ELSE LET p == ProviderOrder[i]
             r == rate_limit_ok(NewProvider(p), day)
             tried == [acc EXCEPT !.attempted = Append(@, p)]
         IN IF ~r.ok
              THEN Dispatch_abort(i + 1, day, ticker, hits, raiser, raiseAt, tried)
              ELSE LET f == fetch_company_data(r.inst, day, ticker, p \in hits,
                                               IF raiser = p THEN raiseAt ELSE -1)
                       added == IF f.raised THEN <<Entry(p, "all", 0)>> ELSE f.entries
                       done == [tried EXCEPT
                                  !.invoked = @ \cup {p},
                                  !.failed = IF f.raised THEN @ \cup {p} ELSE @,
                                  !.sent = IF p \in Budgeted
                                             THEN [@ EXCEPT ![p] = @ + f.sent] ELSE @,
                                  !.providers_run = @ \o added,
                                  !.total_records = @ + SumRecords(added)]
                   IN IF f.raised THEN done
                      ELSE Dispatch_abort(i + 1, day, ticker, hits, raiser, raiseAt, done)

(* The dispatch loop of run_full_enrichment over providers[i..].  The try  *)
(* of the loop body covers rate_limit_ok, which has no statement that      *)
(* raises, and fetch_company_data; the except appends the failed entry of  *)
(* the provider and the loop goes on.                                      *)
RECURSIVE Dispatch(_, _, _, _, _, _, _)
Dispatch(i, day, ticker, hits, raiser, raiseAt, acc) ==
    IF i > Len(ProviderOrder) THEN acc
    ELSE LET p == ProviderOrder[i]
             r == rate_limit_ok(NewProvider(p), day)
             tried == [acc EXCEPT !.attempted = Append(@, p)]
         IN IF ~r.ok
              THEN Dispatch(i + 1, day, ticker, hits, raiser, raiseAt, tried)
              ELSE LET f == fetch_company_data(r.inst, day, ticker, p \in hits,
                                               IF raiser = p THEN raiseAt ELSE -1)
                       added == IF f.raised THEN <<Entry(p, "all", 0)>> ELSE f.entries
                   IN Dispatch(i + 1, day, ticker, hits, raiser, raiseAt,
                        [tried EXCEPT
                           !.invoked = @ \cup {p},
                           !.failed = IF f.raised THEN @ \cup {p} ELSE @,
                           !.sent = IF p \in Budgeted
                                      THEN [@ EXCEPT ![p] = @ + f.sent] ELSE @,
                           !.providers_run = @ \o added,
                           !.total_records = @ + SumRecords(added)])

-----------------------------------------------------------------------------
(* core/processing.py, rules/tracker.py, core/db/sources.py                *)

None == <<>>

(* Content is a sequence of characters; " " stands for any whitespace.     *)
RawContents == {<<"a">>, <<" ", "a", " ">>, <<"a", " ", "b">>, <<"a", " ", " ", "b">>}

(* raw.split(): the maximal runs of characters that are not whitespace. *)
RECURSIVE Split(_, _, _)
Split(raw, word, words) ==
    LET closed == IF word = <<>> THEN words ELSE Append(words, word)
    IN IF raw = <<>> THEN closed
       ELSE IF Head(raw) = " " THEN Split(Tail(raw), <<>>, closed)
       ELSE Split(Tail(raw), Append(word, Head(raw)), words)

(* " ".join(words) *)
RECURSIVE Join(_)
Join(words) ==
    IF words = <<>> THEN <<>>
    ELSE IF Len(words) = 1 THEN words[1]
    ELSE words[1] \o <<" ">> \o Join(Tail(words))

(* normalize_content of content that is not HTML. *)
normalize_content(raw) == Join(Split(raw, <<>>, <<>>))

(* sha256 as an injective tag of the content. *)
hash_content(content) == <<"sha256">> \o content

evaluate_change_always(content, previous_hash) ==
    [content_hash |-> hash_content(content), has_changed |-> TRUE]

evaluate_change(content, previous_hash) ==
    LET current_hash == hash_content(content)
    IN [content_hash |-> current_hash,
        has_changed |-> (previous_hash = None \/ previous_hash # current_hash)]

(* The sources table: source 1 is registered and not deleted, no other is. *)
RegisteredSources == {1}
SourceIds == {1, 2}

(* SELECT ... FROM sources WHERE id = %s AND deleted_at IS NULL *)
get_source(source_id) == source_id \in RegisteredSources /\ source_id \notin deleted

source_exists(source_id) == source_id \in RegisteredSources /\ source_id \notin deleted

list_sources == {source_id \in RegisteredSources : source_id \notin deleted}

RowsOf(table, source_id) ==
    SelectSeq(table, LAMBDA row : row.source_id = source_id)

(* SELECT content_hash ... ORDER BY observed_at DESC LIMIT 1 *)
get_latest_snapshot_hash(snapshots, source_id) ==
    LET rows == RowsOf(snapshots, source_id)
    IN IF rows = <<>> THEN None ELSE rows[Len(rows)].content_hash

(* SELECT created_at ... WHERE status IN ('succeeded', 'skipped')          *)
(* ORDER BY created_at DESC LIMIT 1; -1 when there is no such row.         *)
get_last_ingest_time(runsTable, source_id) ==
    LET rows == SelectSeq(runsTable, LAMBDA row : row.source_id = source_id
                                        /\ row.status \in {"succeeded", "skipped"})
    IN IF rows = <<>> THEN -1 ELSE rows[Len(rows)].created_at

(* The repository calls below take and return the tables as one record d; *)
(* d.wrote collects the tables the current call has written, d.audited    *)
(* the tables whose write came with an INSERT INTO audit_events in the     *)
(* same transaction.                                                       *)
log_ingest_run(d, source_id, status, detail, t) ==
    [d EXCEPT !.ingest_runs = Append(@, [source_id |-> source_id, status |-> status,
                                         detail |-> detail, created_at |-> t]),
              !.wrote = @ \cup {"ingest_runs"},
              !.audited = @ \cup {"ingest_runs"}]

log_failed_ingestion(d, source_id, error_type, retryable) ==
    [d EXCEPT !.failed_ingestions =
        Append(@, [source_id |-> source_id, error_type |-> error_type,
                   retryable |-> retryable]),
              !.wrote = @ \cup {"failed_ingestions"},
              !.audited = @ \cup {"failed_ingestions"}]

insert_snapshot(d, source_id, content_hash) ==
    [d EXCEPT !.source_snapshots =
        Append(@, [source_id |-> source_id, content_hash |-> content_hash]),
              !.wrote = @ \cup {"source_snapshots"}]

insert_insight(d, source_id, content_hash) ==
    [d EXCEPT !.insights =
        Append(@, [source_id |-> source_id, content_hash |-> content_hash]),
              !.wrote = @ \cup {"insights"},
              !.audited = @ \cup {"insights"}]

upsert_document_memory(d, source_id, content_hash) ==
    [d EXCEPT !.memory_chunks =
        @ \cup {[source_id |-> source_id, content_hash |-> content_hash]},
              !.wrote = @ \cup {"memory_chunks"}]

upsert_graph_relationship(d, source_id) ==
    [d EXCEPT !.source_evidence_relations = @ \cup {[source_id |-> source_id]},
              !.wrote = @ \cup {"source_evidence_relations"}]

-----------------------------------------------------------------------------
(* workers/tasks_ingest.py *)

(* What one call meets: the policy decision, how the fetch ends, what it   *)
(* returns, which repository insert raises, and where the memory writes    *)
(* fail.  A choice that the call never gets to look at is left at its      *)
(* first value.                                                            *)
IngestEnvs ==
    {env \in [allowed : BOOLEAN, fetch : {"ok", "http_error", "other_error"},
              raw : RawContents, failAt : {"none", "snapshot", "insight"},
              memFails : {"none", "memory", "graph"}] :
        /\ ~env.allowed => env.fetch = "ok"
        /\ (~env.allowed \/ env.fetch # "ok") =>
              (env.raw = <<"a">> /\ env.failAt = "none")
        /\ env.failAt # "none" => env.memFails = "none"
        /\ env.failAt = "snapshot" => env.raw = <<"a">>}

DefaultEnv == [allowed |-> TRUE, fetch |-> "ok", raw |-> <<"a">>, failAt |-> "none",
               memFails |-> "none"]

Outcome(d, path, raised, content_hash, previous_hash) ==
    [d |-> d, path |-> path, raised |-> raised, content_hash |-> content_hash,
     previous_hash |-> previous_hash]

(* execute_ingest from normalize_content on, without the try around the   *)
(* memory writes.                                                          *)
ProcessAndPersist_unguarded(d, source_id, t, env) ==
    LET content == normalize_content(env.raw)
        previous_hash == get_latest_snapshot_hash(d.source_snapshots, source_id)
        evaluation == evaluate_change(content, previous_hash)
        h == evaluation.content_hash
        d1 == insert_snapshot(d, source_id, h)
        d2 == insert_insight(d1, source_id, h)
        d3 == upsert_graph_relationship(upsert_document_memory(d2, source_id, h),
                                        source_id)
    IN IF env.failAt = "snapshot"
         THEN Outcome(d, "processing_failed", TRUE, None, previous_hash)
       ELSE IF ~evaluation.has_changed
         THEN Outcome(log_ingest_run(d1, source_id, "succeeded",
                                     "changed=False;memory=n/a", t),
                      "persisted", FALSE, h, previous_hash)
       ELSE IF env.failAt = "insight"
         THEN Outcome(d1, "processing_failed", TRUE, h, previous_hash)
       ELSE IF env.memFails = "memory"
         THEN Outcome(d2, "processing_failed", TRUE, h, previous_hash)
       ELSE IF env.memFails = "graph"
         THEN Outcome(upsert_document_memory(d2, source_id, h),
                      "processing_failed", TRUE, h, previous_hash)
       ELSE Outcome(log_ingest_run(d3, source_id, "succeeded",
                                   "changed=True;memory=ok", t),
                    "persisted", FALSE, h, previous_hash)

(* execute_ingest from normalize_content on. *)
ProcessAndPersist(d, source_id, t, env) ==
    LET content == normalize_content(env.raw)
        previous_hash == get_latest_snapshot_hash(d.source_snapshots, source_id)
        evaluation == evaluate_change(content, previous_hash)
        h == evaluation.content_hash
        d1 == insert_snapshot(d, source_id, h)
        d2 == insert_insight(d1, source_id, h)
        d3 == CASE env.memFails = "memory" ->
                     log_failed_ingestion(d2, source_id, "memory_write_failed", TRUE)
                [] env.memFails = "graph" ->
                     log_failed_ingestion(upsert_document_memory(d2, source_id, h),
                                          source_id, "memory_write_failed", TRUE)
                [] OTHER ->
                     upsert_graph_relationship(upsert_document_memory(d2, source_id, h),
                                               source_id)
        detail == IF env.memFails = "none" THEN "changed=True;memory=ok"
                                           ELSE "changed=True;memory=degraded"
    IN IF env.failAt = "snapshot"
         THEN Outcome(d, "processing_failed", TRUE, None, previous_hash)
       ELSE IF ~evaluation.has_changed
         THEN Outcome(log_ingest_run(d1, source_id, "succeeded",
                                     "changed=False;memory=n/a", t),
                      "persisted", FALSE, h, previous_hash)
       ELSE IF env.failAt = "insight"
         THEN Outcome(d1, "processing_failed", TRUE, h, previous_hash)
       ELSE Outcome(log_ingest_run(d3, source_id, "succeeded", detail, t),
                    "persisted", FALSE, h, previous_hash)

execute_ingest(d, source_id, force_refresh, t, env) ==
    LET last_ingest == get_last_ingest_time(d.ingest_runs, source_id)
    IN IF ~get_source(source_id)
         THEN Outcome(log_failed_ingestion(d, source_id, "SourceNotFound", FALSE),
                      "not_found", TRUE, None, None)
       ELSE IF last_ingest # -1 /\ ~force_refresh
               /\ t - last_ingest < ingest_min_interval_seconds
         THEN Outcome(log_ingest_run(d, source_id, "skipped", "throttled_min_interval", t),
                      "throttled", FALSE, None, None)
       ELSE IF ~env.allowed
         THEN Outcome(log_ingest_run(d, source_id, "blocked", "policy", t),
                      "blocked", FALSE, None, None)
       ELSE IF env.fetch # "ok"
         THEN Outcome(log_failed_ingestion(d, source_id, env.fetch,
                                           env.fetch = "http_error"),
                      "fetch_failed", TRUE, None, None)
       ELSE ProcessAndPersist(d, source_id, t, env)

(* The class of the exception a call of execute_ingest ends with: the      *)
(* fetch re-raises what the connector raised, get_source's miss is a       *)
(* ValueError, and a failing repository insert raises a database error.    *)
ExceptionOf(r, env) ==
    CASE ~r.raised -> "none"
      [] r.path = "not_found" -> "ValueError"
      [] r.path = "fetch_failed" -> env.fetch
      [] OTHER -> "db_error"

(* except (httpx.HTTPError, httpx.ConnectError) *)
IsHttpError(exc) == exc = "http_error"

(* self.retry(exc=error, max_retries=3): a new message with one more retry *)
(* unless the message has used its retries, and then the error is raised.  *)
retry(retries) == IF retries >= max_retries THEN "raise" ELSE "retry"

(* One execution of the task run_ingest for a message with the given       *)
(* number of retries.                                                      *)
run_ingest(d, source_id, retries, t, env) ==
    LET r == execute_ingest(d, source_id, FALSE, t, env)
        exc == ExceptionOf(r, env)
    IN [r |-> r, exc |-> exc,
        next |-> CASE exc = "none" -> "return"
                   [] IsHttpError(exc) -> retry(retries)
                   [] OTHER -> "raise"]

NoJob == [queued |-> FALSE, source_id |-> 0, retries |-> 0]

NoAttempt == [ran |-> FALSE, retries |-> 0, exc |-> "none", recorded |-> FALSE,
              retryable |-> FALSE, next |-> "none"]

InitRetryVars == job = NoJob /\ jobs = 0 /\ lastAttempt = NoAttempt

-----------------------------------------------------------------------------
(* workers/tasks_compliance.py, core/db/retention.py, core/memory.py       *)

NotOf(table, source_id) ==
    SelectSeq(table, LAMBDA row : row.source_id # source_id)

(* The repository calls of the deletion take and return the store as one   *)
(* record st.                                                              *)
delete_source_memory(st, source_id) ==
    [st EXCEPT !.memory_chunks = {c \in @ : c.source_id # source_id},
               !.source_evidence_relations = {c \in @ : c.source_id # source_id}]

delete_source_records_keep_reports(st, source_id) ==
    [st EXCEPT !.search_evidence_table = [@ EXCEPT ![source_id] = 0],
               !.insights = NotOf(@, source_id),
               !.source_snapshots = NotOf(@, source_id),
               !.ingest_runs = NotOf(@, source_id),
               !.failed_ingestions = NotOf(@, source_id),
               !.deleted = IF source_id \in RegisteredSources
                             THEN @ \cup {source_id} ELSE @]

delete_source_records(st, source_id) ==
    [st EXCEPT !.search_evidence_table = [@ EXCEPT ![source_id] = 0],
               !.reports = [@ EXCEPT ![source_id] = 0],
               !.insights = NotOf(@, source_id),
               !.source_snapshots = NotOf(@, source_id),
               !.ingest_runs = NotOf(@, source_id),
               !.failed_ingestions = NotOf(@, source_id),
               !.deleted = IF source_id \in RegisteredSources
                             THEN @ \cup {source_id} ELSE @]

mark_deletion_request(st, request_id, status, detail) ==
    [st EXCEPT !.deletion_requests[request_id].status = status,
               !.deletion_requests[request_id].detail = detail]

(* execute_deletion_request for a request that exists; fail names the      *)
(* repository call that raises, whose transaction is rolled back.          *)
execute_deletion_request(st, request_id, fail) ==
    LET source_id == st.deletion_requests[request_id].source_id
        running == mark_deletion_request(st, request_id, "running", "deletion_started")
        st1 == delete_source_memory(running, source_id)
        st2 == delete_source_records(st1, source_id)
    IN IF source_id \in st.deleted \/ source_id \notin RegisteredSources
         THEN [st |-> mark_deletion_request(running, request_id, "failed",
                                            "source_not_found_or_already_deleted"),
               status |-> "failed", raised |-> FALSE]
       ELSE IF fail = "memory"
         THEN [st |-> mark_deletion_request(running, request_id, "failed", "error"),
               status |-> "failed", raised |-> TRUE]
       ELSE IF fail = "records"
         THEN [st |-> mark_deletion_request(st1, request_id, "failed", "error"),
               status |-> "failed", raised |-> TRUE]
       ELSE [st |-> mark_deletion_request(st2, request_id, "executed", "db;memory"),
             status |-> "executed", raised |-> FALSE]

(* The tables a deletion has to clear, and those in which a source has     *)
(* rows.                                                                   *)
CascadeTables == {"source_snapshots", "insights", "reports", "search_evidence",
                  "memory_chunks"}

HasRows(st, table, source_id) ==
    CASE table = "source_snapshots" -> RowsOf(st.source_snapshots, source_id) # <<>>
      [] table = "insights" -> RowsOf(st.insights, source_id) # <<>>
      [] table = "reports" -> st.reports[source_id] > 0
      [] table = "search_evidence" -> st.search_evidence_table[source_id] > 0
      [] OTHER -> \E c \in st.memory_chunks : c.source_id = source_id

TablesHolding(st, source_id) ==
    {table \in CascadeTables : HasRows(st, table, source_id)}

NoDeletion == [ran |-> FALSE, request_id |-> 0, source_id |-> 0, status |-> "none",
               raised |-> FALSE, had |-> {}, remaining |-> {}]

InitDeletionVars ==
    /\ deleted = {}
    /\ reports = [s \in SourceIds |-> 0]
    /\ search_evidence_table = [s \in SourceIds |-> 0]
    /\ deletion_requests = <<>>
    /\ lastDeletion = NoDeletion

-----------------------------------------------------------------------------
(* core/db/financials.py *)

(* The unique key (ticker, period_type, period_end_date, source_provider). *)
PeriodKeys == {<<"AAPL", "quarterly", "2024-03-31", "fmp">>,
               <<"AAPL", "quarterly", "2024-03-31", "alpha_vantage">>}

Statements == {"income_statement", "balance_sheet", "cash_flow", "key_metrics"}

(* A JSON object is a function from some of the keys to values. *)
JsonKeys == {"revenue", "eps"}
JsonValues == {1, 2}
EmptyObject == [k \in {} |-> 0]
JsonObjects == UNION {[D -> JsonValues] : D \in SUBSET JsonKeys}

(* A call as the providers make it: one statement map is passed, the       *)
(* others are left at None; fiscal_year comes with the income statement    *)
(* only.  0 stands for NULL in entity_id and fiscal_year.                  *)
FinancialCalls ==
    {[key |-> k, statements |-> st] :
        k \in PeriodKeys, st \in UNION {[{s} -> JsonObjects] : s \in Statements}}

EntityIdOf(call) == 1

FiscalYearOf(call) ==
    IF "income_statement" \in DOMAIN call.statements THEN 2024 ELSE 0

(* _json.dumps(statement or {}) ... %s::jsonb *)
Excluded(call, s) ==
    IF s \in DOMAIN call.statements /\ DOMAIN call.statements[s] # {}
      THEN call.statements[s]
      ELSE EmptyObject

(* COALESCE(EXCLUDED.x, financial_periods.x) *)
Coalesce(excluded, stored) == IF excluded # 0 THEN excluded ELSE stored

(* jsonb || jsonb: the keys of both, the right operand's value where both  *)
(* have the key.                                                           *)
JsonConcat(left, right) ==
    [k \in DOMAIN left \cup DOMAIN right |->
        IF k \in DOMAIN right THEN right[k] ELSE left[k]]

(* CASE WHEN EXCLUDED.s::text = '{}' THEN stored ELSE EXCLUDED.s END *)
MergeStatement_overwrite(stored, excluded) ==
    IF DOMAIN excluded = {} THEN stored ELSE excluded

(* CASE WHEN EXCLUDED.s::text = '{}' THEN stored ELSE stored || EXCLUDED.s END *)
MergeStatement(stored, excluded) ==
    IF DOMAIN excluded = {} THEN stored ELSE JsonConcat(stored, excluded)

InsertedPeriod(call) ==
    [key |-> call.key, entity_id |-> EntityIdOf(call),
     fiscal_year |-> FiscalYearOf(call),
     statements |-> [s \in Statements |-> Excluded(call, s)]]

UpdatedPeriod(row, call) ==
    [key |-> row.key,
     entity_id |-> Coalesce(EntityIdOf(call), row.entity_id),
     fiscal_year |-> Coalesce(FiscalYearOf(call), row.fiscal_year),
     statements |-> [s \in Statements |->
                       MergeStatement(row.statements[s], Excluded(call, s))]]

(* INSERT ... without the ON CONFLICT clause and the unique constraint. *)
upsert_financial_period_insert(tbl, call) == tbl \cup {InsertedPeriod(call)}

(* INSERT ... ON CONFLICT (ticker, period_type, period_end_date,           *)
(* source_provider) DO UPDATE SET ...: one statement, which the database   *)
(* runs atomically on the row.                                             *)
upsert_financial_period(tbl, call) ==
    LET conflicts == {row \in tbl : row.key = call.key}
    IN IF conflicts = {}
         THEN tbl \cup {InsertedPeriod(call)}
         ELSE (tbl \ conflicts) \cup {UpdatedPeriod(row, call) : row \in conflicts}

NoCall == [key |-> <<>>, statements |-> EmptyObject]

NoUpsert == [n |-> 0, call |-> NoCall, met |-> {}, prev_call |-> NoCall,
             prev_met |-> {}]

(* The table before the calls: empty, or with the row an earlier income    *)
(* statement call has inserted.                                            *)
StoredBefore ==
    {{}, {InsertedPeriod([key |-> <<"AAPL", "quarterly", "2024-03-31", "fmp">>,
                         statements |-> [s \in {"income_statement"} |->
                                           [k \in JsonKeys |-> 1]]])}}

InitFinancialVars ==
    financial_periods = {} /\ upserts = 0 /\ lastUpsert = NoUpsert

-----------------------------------------------------------------------------
(* core/entities.py *)

(* Strings are sequences of characters. *)
LowerChar(c) == CASE c = "A" -> "a" [] c = "B" -> "b" [] c = "C" -> "c" [] OTHER -> c
UpperChar(c) == CASE c = "a" -> "A" [] c = "b" -> "B" [] c = "c" -> "C" [] OTHER -> c

Lower(str) == [i \in 1..Len(str) |-> LowerChar(str[i])]
Upper(str) == [i \in 1..Len(str) |-> UpperChar(str[i])]

(* What the quotes API gives as symbol and shortname, what the profile API *)
(* gives as companyName (the empty string when it gives none), and the     *)
(* query texts, which have no whitespace around them.                      *)
YahooSymbols == {<<"A", "B">>, <<"a", "b">>}
YahooName == <<"A", "b", "c">>
FmpNames == {<<>>, <<"A", "b", "c", " ", "C">>}
QueryTexts == {<<"a", "c">>, <<"A", "B">>}

(* _lookup_entity: a row whose ticker, name or aliases match the query. *)
LookupMatches(rows, query) ==
    {row \in rows : \/ Upper(row.ticker) = Upper(query)
                    \/ Lower(row.name) = Lower(query)
                    \/ Lower(query) \in row.aliases}

(* resolve_entity up to its last lookup: TRUE when one of its lookups      *)
(* finds a row, which it returns.                                          *)
FoundInCache(rows, query_text, pre_resolved_ticker, ticker) ==
    \/ (pre_resolved_ticker # <<>> /\ LookupMatches(rows, pre_resolved_ticker) # {})
    \/ LookupMatches(rows, query_text) # {}
    \/ LookupMatches(rows, ticker) # {}

(* aliases = list({v.lower() for v in [query_text, yahoo name, ticker] if v}) *)
BuildAliases(query_text, yahoo_name, ticker) ==
    {Lower(v) : v \in {query_text, yahoo_name, ticker} \ {<<>>}}

(* final_name = fmp name or yahoo name or query_text *)
FinalName(fmp_name, yahoo_name, query_text) ==
    IF fmp_name # <<>> THEN fmp_name
    ELSE IF yahoo_name # <<>> THEN yahoo_name ELSE query_text

(* COALESCE(NULLIF(EXCLUDED.x, ''), entities.x) *)
CoalesceText(excluded, stored) == IF excluded # <<>> THEN excluded ELSE stored

(* INSERT INTO entities ... ON CONFLICT (ticker) DO UPDATE SET ...,        *)
(* aliases = EXCLUDED.aliases: the conflict is on the ticker as written.   *)
upsert_entity(rows, call) ==
    LET conflicts == {row \in rows : row.ticker = call.ticker}
    IN IF conflicts = {}
         THEN rows \cup {[ticker |-> call.ticker, name |-> call.name,
                          aliases |-> call.aliases]}
         ELSE (rows \ conflicts)
                \cup {[ticker |-> row.ticker,
                       name |-> CoalesceText(call.name, row.name),
                       aliases |-> call.aliases] : row \in conflicts}

Resolvers == {1, 2}

Idle == [busy |-> FALSE]

NoEntityWrite == [ran |-> FALSE, query_text |-> <<>>, ticker |-> <<>>,
                  existed |-> FALSE, aliases_before |-> {}, aliases_after |-> {},
                  name_after |-> <<>>]

InitEntityVars ==
    /\ entities = {} /\ resolving = [p \in Resolvers |-> Idle]
    /\ resolves = 0 /\ lastEntityWrite = NoEntityWrite

-----------------------------------------------------------------------------
(* security/policy_engine.py *)

(* The network location of a URL is a sequence of characters; the scheme   *)
(* and the path of the URLs are the same throughout ("http", "/").         *)
Netlocs == {<<"a">>, <<"A">>, <<"b", ".", "a">>, <<"b", "a">>, <<"b">>, <<"[", "a">>,
            <<>>}

(* Settings.ingest_allowed_domains, already split, stripped and lowered. *)
AllowLists == {{}, {<<"a">>}}

PolicySettings ==
    [ingest_allowed_domains : AllowLists, ingest_policy_require_robots : BOOLEAN,
     ingest_policy_deny_on_robots_error : BOOLEAN]

(* How the request for /robots.txt ends and what the file says: status 200 *)
(* and the URL allowed, status 200 and the URL disallowed, another status, *)
(* or an exception.                                                        *)
RobotsOutcomes == {"allowed", "disallowed", "missing", "error"}

Contains(str, c) == \E i \in 1..Len(str) : str[i] = c

(* urlparse(url): urlsplit raises ValueError("Invalid IPv6 URL") for a     *)
(* network location with one of the two brackets only.                     *)
urlparse(netloc) ==
    IF Contains(netloc, "[") # Contains(netloc, "]")
      THEN [raised |-> TRUE, netloc |-> <<>>, hostname |-> <<>>]
      ELSE [raised |-> FALSE, netloc |-> netloc, hostname |-> Lower(netloc)]

EndsWith(str, suffix) ==
    /\ Len(suffix) <= Len(str)
    /\ SubSeq(str, Len(str) - Len(suffix) + 1, Len(str)) = suffix

PolicyDecision(allowed, reason) == [raised |-> FALSE, allowed |-> allowed, reason |-> reason]

(* The ValueError of urlparse leaves the caller: no try is around it. *)
PolicyRaised == [raised |-> TRUE, allowed |-> FALSE, reason |-> "ValueError"]

(* _domain_allowed: urlparse is called only with an allow-list set. *)
domain_allowed(netloc, settings) ==
    LET domains == settings.ingest_allowed_domains
        parsed == urlparse(netloc)
        host == parsed.hostname
    IN IF domains = {} THEN [raised |-> FALSE, ok |-> TRUE]
       ELSE IF parsed.raised THEN [raised |-> TRUE, ok |-> FALSE]
       ELSE [raised |-> FALSE,
             ok |-> host \in domains
                    \/ \E domain \in domains : EndsWith(host, <<".">> \o domain)]

(* _robots_allowed: urlparse comes before the try, the request and the     *)
(* parser are inside it.                                                   *)
robots_allowed(netloc, settings, robots) ==
    IF ~settings.ingest_policy_require_robots
      THEN PolicyDecision(TRUE, "robots_check_disabled")
    ELSE IF urlparse(netloc).raised THEN PolicyRaised
    ELSE CASE robots = "allowed" -> PolicyDecision(TRUE, "robots_allowed")
           [] robots = "disallowed" -> PolicyDecision(FALSE, "robots_disallow")
           [] robots = "missing" -> PolicyDecision(TRUE, "robots_missing_allow")
           [] robots = "error" ->
                IF settings.ingest_policy_deny_on_robots_error
                  THEN PolicyDecision(FALSE, "robots_check_error_deny")
                  ELSE PolicyDecision(TRUE, "robots_check_error_allow")

validate_source_policy(netloc, settings, robots) ==
    LET d == domain_allowed(netloc, settings)
        robots_decision == robots_allowed(netloc, settings, robots)
    IN IF d.raised THEN PolicyRaised
       ELSE IF ~d.ok THEN PolicyDecision(FALSE, "domain_not_allowlisted")
       ELSE IF robots_decision.raised THEN PolicyRaised
       ELSE IF ~robots_decision.allowed THEN robots_decision
       ELSE PolicyDecision(TRUE, "policy_pass")

NoPolicy == [checked |-> FALSE]

InitPolicyVars == policy = NoPolicy

-----------------------------------------------------------------------------
(* core/pipeline/enrichment.py, core/pipeline/intelligence.py: scenarios   *)

(* The probabilities an LLM answer gives, and the decision confidences,    *)
(* are counted in hundredths; the probabilities of the scenarios that are  *)
(* returned, in thousandths.                                               *)
LlmProbabilities == {0, 10, 33, 50, 60}

(* What _parse_json_array makes of the LLM answer: nothing, a list of two  *)
(* scenarios, or a list of three.                                          *)
LlmAnswers ==
    {<<>>} \cup [1..2 -> {33}] \cup [1..3 -> LlmProbabilities]

Confidences == {0, 5, 50, 68, 80, 95, 100}

Sum3(seq) == seq[1] + seq[2] + seq[3]

(* round(num / den, 3), in thousandths, for den > 0 and num >= 0; a        *)
(* quotient on a tie goes to the even neighbour.                           *)
round3(num, den) ==
    LET q == (1000 * num) \div den
        r == (1000 * num) % den
    IN IF 2 * r < den THEN q
       ELSE IF 2 * r > den THEN q + 1
       ELSE IF q % 2 = 0 THEN q ELSE q + 1

(* A quotient whose third decimal is followed by exactly 5. *)
OnTie(num, den) == 2 * ((1000 * num) % den) = den

(* The normalisation of three LLM scenarios, in _build_scenarios and in    *)
(* run_market_intelligence_query alike: the probabilities are divided by   *)
(* their total only if it is positive, and are returned as given if not.   *)
Normalize(answer) ==
    LET total_prob == Sum3(answer)
    IN IF total_prob > 0
         THEN [i \in 1..3 |-> round3(answer[i], total_prob)]
         ELSE [i \in 1..3 |-> 10 * answer[i]]

Minimum(a, b) == IF a <= b THEN a ELSE b
Maximum(a, b) == IF a >= b THEN a ELSE b

(* The arithmetic scenarios of _build_scenarios. *)
Fallback(confidence) ==
    LET base_confidence == IF confidence = 0 THEN 50 ELSE confidence
        bull_raw == Minimum(base_confidence + 12, 92)
        base_raw == Maximum(Minimum(base_confidence, 80), 10)
        bear_raw == Maximum(100 - base_confidence + 5, 10)
        total == bull_raw + base_raw + bear_raw
        bull_prob == round3(bull_raw, total)
        base_prob == round3(base_raw, total)
        bear_prob == Maximum(1000 - bull_prob - base_prob, 0)
    IN <<bull_prob, base_prob, bear_prob>>

(* _build_scenarios: the LLM scenarios if there are three, else the        *)
(* arithmetic ones.                                                        *)
build_scenarios(answer, confidence) ==
    IF Len(answer) = 3 THEN Normalize(answer) ELSE Fallback(confidence)

(* The scenarios of run_market_intelligence_query: those of the parallel   *)
(* LLM run if there are three, else _build_scenarios.                      *)
batch_scenarios(parallel, answer, confidence) ==
    IF Len(parallel) = 3 THEN Normalize(parallel)
    ELSE build_scenarios(answer, confidence)

NoScenario == [built |-> FALSE]

InitScenarioVars == scenario = NoScenario

-----------------------------------------------------------------------------
(* workers/tasks_ingest.py: the calls of execute_ingest of several worker  *)
(* processes, each from one repository call to the next                    *)

Workers == {1, 2}

(* What the connector fetches from the one registered source. *)
FetchedContents == {<<"a">>, <<"b">>}

NoWork == [pc |-> "idle", source_id |-> 0, content_hash |-> None,
           has_changed |-> FALSE]

InitWorkerVars ==
    /\ worker = [w \in Workers |-> NoWork]
    /\ starts = 0
    /\ ended = "none"
    /\ overlapped = FALSE
    /\ revived = {}

(* INSERT INTO sources ... ON CONFLICT (url) DO UPDATE SET name = ...,      *)
(* connector_type = ..., deleted_at = NULL, for the URL of a source that   *)
(* is in the table: the set of soft-deleted sources it leaves.             *)
add_source(deletedNow, source_id) == deletedNow \ {source_id}

-----------------------------------------------------------------------------
(* workers/tasks_ingest.py, core/db/sources.py: the throttle over a time   *)
(* without end                                                             *)

(* The ingest runs of the one registered source are kept by their age: of  *)
(* each status the latest run only, and a run at least                     *)
(* ingest_min_interval_seconds old as one of just that age, since          *)
(* execute_ingest reads the latest run only and compares its age with the  *)
(* interval only.                                                          *)
RunStatuses == {"succeeded", "skipped"}

InitThrottleVars == recent = [status \in RunStatuses |-> -1]

(* The table ingest_runs that the ages stand for, the present being 0:     *)
(* the older row first.                                                    *)
RunsOfAges(ages, source_id) ==
    LET row(status) == [source_id |-> source_id, status |-> status,
                        detail |-> "none", created_at |-> 0 - ages[status]]
        older == IF ages["succeeded"] >= ages["skipped"] THEN "succeeded" ELSE "skipped"
        newer == IF older = "succeeded" THEN "skipped" ELSE "succeeded"
    IN (IF ages[older] = -1 THEN <<>> ELSE <<row(older)>>)
         \o (IF ages[newer] = -1 THEN <<>> ELSE <<row(newer)>>)

(* The ages after a while. *)
Aged(ages, seconds) ==
    [status \in RunStatuses |->
        IF ages[status] = -1 THEN -1
        ELSE Minimum(ages[status] + seconds, ingest_min_interval_seconds)]

-----------------------------------------------------------------------------
(* core/processing.py: chunk_text *)

(* The texts: their lengths and their kinds.  "words1" is "a a a ..",      *)
(* "words3" is "aaa aaa ..", "solid" has no space, "blank" has nothing     *)
(* else, and "gap" is spaces between a first and a last letter.            *)
TextLengths == {0, 1, 2, 99, 100, 101, 120, 121, 199, 201, 230}

TextKinds == {"words1", "words3", "solid", "blank", "gap"}

TextOf(kind, length) ==
    [i \in 1..length |->
        CASE kind = "words1" -> IF i % 2 = 0 THEN " " ELSE "a"
          [] kind = "words3" -> IF i % 4 = 0 THEN " " ELSE "a"
          [] kind = "solid"  -> "a"
          [] kind = "blank"  -> " "
          [] kind = "gap"    -> IF i = 1 \/ i = length THEN "a" ELSE " "]

ChunkSizes == {-5, 0, 50, 100, 120}

Overlaps == {-3, 0, 20, 99, 100, 119, 150}

(* " ".join(text.split()) leaves the text as it is. *)
IsNormalized(text) ==
    /\ Len(text) > 0 => text[1] # " " /\ text[Len(text)] # " "
    /\ \A i \in 1..(Len(text) - 1) : ~(text[i] = " " /\ text[i + 1] = " ")

(* str.strip() *)
strip(str) ==
    IF \A i \in 1..Len(str) : str[i] = " " THEN <<>>
    ELSE SubSeq(str,
                CHOOSE i \in 1..Len(str) :
                    str[i] # " " /\ \A j \in 1..(i - 1) : str[j] = " ",
                CHOOSE i \in 1..Len(str) :
                    str[i] # " " /\ \A j \in (i + 1)..Len(str) : str[j] = " ")

(* text[start:end], for 0 <= start <= end <= len(text) *)
Slice(text, start, end) == SubSeq(text, start + 1, end)

min_length == 100

(* The while loop of chunk_text, from the top of an iteration.  An         *)
(* iteration that is not the last and does not move start forward comes    *)
(* back with the same test and the same step for ever.                     *)
RECURSIVE ChunkLoop(_, _, _, _, _, _)
ChunkLoop(text, safe_chunk_size, safe_overlap, start, chunks, windows) ==
    LET length == Len(text)
        end == Minimum(start + safe_chunk_size, length)
        chunk == strip(Slice(text, start, end))
        appended == IF chunk # <<>> THEN Append(chunks, chunk) ELSE chunks
        seen == Append(windows, [start |-> start, end |-> end])
    IN IF ~(start < length)
         THEN [terminates |-> TRUE, chunks |-> chunks, windows |-> windows]
       ELSE IF end = length
         THEN [terminates |-> TRUE, chunks |-> appended, windows |-> seen]
       ELSE IF end - safe_overlap <= start
         THEN [terminates |-> FALSE, chunks |-> appended, windows |-> seen]
       ELSE ChunkLoop(text, safe_chunk_size, safe_overlap, end - safe_overlap,
                      appended, seen)

(* chunk_text with the overlap as it was passed *)
chunk_text_overlap_as_given(text, chunk_size, overlap) ==
    IF text = <<>> THEN [terminates |-> TRUE, chunks |-> <<>>, windows |-> <<>>]
    ELSE ChunkLoop(text, Maximum(chunk_size, min_length), Maximum(overlap, 0),
                   0, <<>>, <<>>)

chunk_text(text, chunk_size, overlap) ==
    IF text = <<>> THEN [terminates |-> TRUE, chunks |-> <<>>, windows |-> <<>>]
    ELSE LET safe_chunk_size == Maximum(chunk_size, min_length)
             safe_overlap == Minimum(Maximum(overlap, 0), safe_chunk_size - 1)
         IN ChunkLoop(text, safe_chunk_size, safe_overlap, 0, <<>>, <<>>)

NoChunking == [called |-> FALSE]

InitChunkVars == chunking = NoChunking

-----------------------------------------------------------------------------
(* core/llm/providers.py: the semaphore of ollama_generate_async *)

(* search_query is a plain def, so the server runs each query in a thread  *)
(* of its pool, and run_market_intelligence_query starts an event loop of  *)
(* its own with asyncio.run: query q runs in thread q on event loop q.     *)
(* With a local backend generate_parallel_intelligence hands its prompts   *)
(* to asyncio.gather, one call of ollama_generate_async each.              *)
Queries == 1..MaxQueries

Calls == Queries \X (1..gather_prompts)

LoopOf(c) == c[1]

(* asyncio.Semaphore(value): no loop bound yet, nobody waiting. *)
Semaphore(value) == [value |-> value, loop |-> 0, waiters |-> <<>>]

(* Semaphore.locked: no slot left, or somebody is queued. *)
locked(s) == s.value = 0 \/ s.waiters # <<>>

(* Semaphore._wake_up_next, called in thread `by`: the first waiter whose  *)
(* future is not done takes a slot and gets its result set.  The future    *)
(* schedules the waiter with call_soon on the loop it belongs to; from a   *)
(* thread other than that loop's, call_soon does not wake the loop up.     *)
wake_up_next(s, pcs, by) ==
    LET pending == {i \in 1..Len(s.waiters) : pcs[s.waiters[i]] = "waiting"}
    IN IF pending = {}
         THEN [sem |-> s, pc |-> pcs, woke |-> FALSE]
         ELSE LET i == CHOOSE i \in pending : \A j \in pending : i <= j
                  w == s.waiters[i]
              IN [sem |-> [s EXCEPT !.value = @ - 1],
                  pc |-> [pcs EXCEPT ![w] = IF by = LoopOf(w) THEN "granted"
                                                              ELSE "granted_unnotified"],
                  woke |-> TRUE]

(* Semaphore.release *)
release(s, pcs, by) == wake_up_next([s EXCEPT !.value = @ + 1], pcs, by)

(* The end of Semaphore.acquire for a waiter that was woken:               *)
(* while self._value > 0: if not self._wake_up_next(): break               *)
RECURSIVE wake_while_free(_, _, _)
wake_while_free(s, pcs, by) ==
    IF s.value <= 0 THEN [sem |-> s, pc |-> pcs, woke |-> FALSE]
    ELSE LET r == wake_up_next(s, pcs, by)
         IN IF r.woke THEN wake_while_free(r.sem, r.pc, by) ELSE r

Without(seq, c) == SelectSeq(seq, LAMBDA x : x # c)

(* A task that is between two awaits keeps its thread: no other task of    *)
(* the same event loop runs until it awaits a future that is not done.     *)
SyncStates == {"creating", "acquire", "taking"}

Busy(q) == \E c \in Calls : LoopOf(c) = q /\ pc[c] \in SyncStates

(* The event loop q has something that makes it run its ready callbacks:   *)
(* a task not yet started, a completion it is polling for, or a callback   *)
(* scheduled from its own thread.                                          *)
LoopRuns(q) ==
    \E c \in Calls : LoopOf(c) = q /\ pc[c] \in {"start", "in_flight", "granted"}

InitLlmVars ==
    /\ semaphore = 0 /\ sems = <<>>
    /\ pc = [c \in Calls |-> "start"] /\ sem_of = [c \in Calls |-> 0]

InitRestVars == InitChunkVars /\ InitWorkerVars /\ InitThrottleVars

InitLaterVars == InitLlmVars /\ InitPolicyVars /\ InitScenarioVars /\ InitRestVars

InitOtherVars ==
    /\ InitRetryVars /\ InitDeletionVars /\ InitFinancialVars /\ InitEntityVars
    /\ InitLaterVars

-----------------------------------------------------------------------------
(* Actions of the query pipeline *)

InitProviderVars ==
    /\ today = 0 /\ requests = NoRequests /\ runs = 0 /\ lastRun = EmptyRun

InitQueryVars ==
    /\ spc = "start" /\ loop = 0 /\ gen = "pull"
    /\ closedBy = "none" /\ events = <<>>
    /\ disconnected = FALSE /\ discAt = -1 /\ deadlinePassed = FALSE
    /\ hasTicker \in BOOLEAN
    /\ nEvidence = 0 /\ citations = -1
    /\ search_queries = 0 /\ search_evidence = 0
    /\ degraded = <<>> /\ excCause = "none" /\ batchResult = "none"

NoIngest == [ran |-> FALSE, source_id |-> 0, force_refresh |-> FALSE, at |-> 0,
             path |-> "none", raised |-> FALSE, content_hash |-> None,
             previous_hash |-> None, last_succeeded |-> -1, runs_before |-> 0,
             wrote |-> {}, audited |-> {}, mem_failure |-> "none"]

NoStreak == [n |-> 0, content_hash |-> None, insights |-> 0, memory_chunks |-> {},
             source_evidence_relations |-> {}]

InitIngestVars ==
    /\ now = 0 /\ invocations = 0
    /\ ingest_runs = <<>> /\ failed_ingestions = <<>>
    /\ source_snapshots = <<>> /\ insights = <<>>
    /\ memory_chunks = {} /\ source_evidence_relations = {}
    /\ lastIngest = NoIngest /\ streak = NoStreak

InitQuery == InitQueryVars /\ InitProviderVars /\ InitIngestVars /\ InitOtherVars

(* One iteration of the loop of generate(): next() on the pipeline         *)
(* generator, which runs the pipeline to its next yield, then the checks   *)
(* on the event it handed over.  An exception out of next() becomes the    *)
(* error event of the except clause; the end of the generator ends the     *)
(* loop.                                                                   *)
Pull ==
    /\ gen = "pull" /\ batchResult = "none"
    /\ \E env \in Admissible(EnvFor(spc), degraded), isDisc, timedOut \in BOOLEAN :
         \E r \in {StreamStep(spc, hasTicker, loop, env)} :
         LET rows == IF r.save
                       THEN SaveSearchResult([queries |-> search_queries,
                                              evidence |-> search_evidence], nEvidence)
                       ELSE [queries |-> search_queries, evidence |-> search_evidence]
             c == GenerateCheck(isDisc, timedOut, r.stage)
         IN /\ spc' = CASE r.kind = "yield" -> r.stage
                          [] r.kind = "raise" -> "raised"
                          [] OTHER -> "returned"
            /\ closedBy' = CASE r.kind = "yield" -> c.closedBy
                               [] r.kind = "raise" -> "exception"
                               [] OTHER -> "exhausted"
            /\ gen' = IF closedBy' = "none" THEN "pull" ELSE "closed"
            /\ events' = CASE r.kind = "yield" -> events \o c.deliver
                             [] r.kind = "raise" -> Append(events, "error")
                             [] OTHER -> events
            /\ excCause' = IF r.kind = "raise" THEN r.cause ELSE excCause
            /\ loop' = IF r.kind = "yield" /\ r.stage \in Starred
                         THEN (IF spc = r.stage THEN loop + 1 ELSE 1)
                         ELSE 0
            /\ nEvidence' = IF spc = "retrieval_complete" THEN env.n ELSE nEvidence
            /\ citations' = IF r.save THEN Citations(nEvidence) ELSE citations
            /\ search_queries' = rows.queries
            /\ search_evidence' = rows.evidence
            /\ degraded' = degraded \o r.deg
            /\ disconnected' = (r.kind = "yield" /\ isDisc)
            /\ discAt' = IF r.kind = "yield" /\ isDisc THEN Len(events) ELSE discAt
            /\ deadlinePassed' = (r.kind = "yield" /\ ~isDisc /\ timedOut)
    /\ UNCHANGED <<hasTicker, batchResult, provVars, ingestVars, otherVars>>

(* POST /search/query: the batch pipeline, start to end. *)
RunBatch ==
    /\ batchResult = "none" /\ spc = "start" /\ ~disconnected /\ ~deadlinePassed
    /\ \E env \in Admissible(BatchEnv, <<>>) :
         LET r == BatchRun(env)
             rows == SaveSearchResult([queries |-> search_queries,
                                       evidence |-> search_evidence], env.n)
         IN IF r.raised
              THEN /\ batchResult' = "raised"
                   /\ excCause' = r.cause
                   /\ UNCHANGED <<nEvidence, citations, search_queries, search_evidence,
                                  degraded>>
              ELSE /\ batchResult' = "report"
                   /\ nEvidence' = env.n
                   /\ citations' = Citations(env.n)
                   /\ search_queries' = rows.queries
                   /\ search_evidence' = rows.evidence
                   /\ degraded' = r.deg
                   /\ excCause' = excCause
    /\ UNCHANGED <<spc, loop, gen, closedBy, events, disconnected, discAt,
                   deadlinePassed, hasTicker, provVars, ingestVars, otherVars>>

NextQuery == Pull \/ RunBatch

SpecQuery == InitQuery /\ [][NextQuery]_vars

-----------------------------------------------------------------------------
(* Actions of the provider framework *)

InitProviders ==
    /\ InitQueryVars /\ hasTicker = FALSE /\ InitProviderVars /\ InitIngestVars
    /\ InitOtherVars

(* The end of run_full_enrichment: db.update_entity_coverage in a try of   *)
(* its own; summary["coverage"] stays None when it raises.                 *)
UpdateCoverage(run, coverageFails) ==
    [run EXCEPT !.coverage_updated = TRUE,
                !.coverage = IF coverageFails THEN "none" ELSE "score"]

(* run_full_enrichment: entity resolution, the dispatch over newly         *)
(* constructed provider objects, then the coverage update.  A provider     *)
(* that raises does so while storing, after its requests were made.        *)
(* Without an entity the call returns before the dispatch.                 *)
RunFullEnrichment ==
    /\ runs < MaxRuns
    /\ \E resolved, ticker, coverageFails \in BOOLEAN, hits \in {{}, Providers},
          raiser \in Providers \cup {"none"} :
         LET start == [EmptyRun EXCEPT !.ran = TRUE, !.before = requests]
         IN /\ ~resolved => (ticker /\ ~coverageFails /\ hits = {} /\ raiser = "none")
            /\ ~ticker => hits = {}
            /\ \E out \in {IF resolved
                              THEN UpdateCoverage(
                                     Dispatch(1, today, ticker, hits, raiser,
                                              CallsPerFetch,
                                              [start EXCEPT !.entity = TRUE]),
                                     coverageFails)
                              ELSE start} :
                 /\ lastRun' = out
                 /\ requests' = [p \in Budgeted |-> requests[p] + out.sent[p]]
    /\ runs' = runs + 1
    /\ UNCHANGED <<today, queryVars, ingestVars, otherVars>>

(* _fmp_enrich_snapshot, called by fetch_financial_snapshot of a query. *)
FmpEnrichSnapshot ==
    /\ runs < MaxRuns
    /\ \E needs_fill \in BOOLEAN :
         LET r == rate_limit_ok(NewProvider("fmp"), today)
             g == IF needs_fill /\ r.ok
                    THEN ProviderGet(r.inst, today, CallsPerSnapshot)
                    ELSE [inst |-> r.inst, sent |-> 0]
         IN requests' = [requests EXCEPT !["fmp"] = @ + g.sent]
    /\ runs' = runs + 1
    /\ UNCHANGED <<today, lastRun, queryVars, ingestVars, otherVars>>

(* The calendar date changes; the requests of the new day start at zero. *)
DayRollover ==
    /\ today < MaxDays
    /\ today' = today + 1
    /\ requests' = NoRequests
    /\ UNCHANGED <<runs, lastRun, queryVars, ingestVars, otherVars>>

NextProviders == RunFullEnrichment \/ FmpEnrichSnapshot \/ DayRollover

SpecProviders == InitProviders /\ [][NextProviders]_vars

(* A few enrichment runs, followed one by one. *)
NextEnrichment == (runs < MaxEnrichments /\ RunFullEnrichment) \/ DayRollover

SpecEnrichment == InitProviders /\ [][NextEnrichment]_vars

-----------------------------------------------------------------------------
(* Actions of the ingestion worker *)

InitIngest ==
    /\ InitQueryVars /\ hasTicker = FALSE /\ InitProviderVars /\ InitIngestVars
    /\ InitOtherVars

(* The time of the latest succeeded run of a source, -1 if it has none. *)
LastSucceeded(runsTable, source_id) ==
    LET rows == SelectSeq(runsTable, LAMBDA row : row.source_id = source_id
                                        /\ row.status = "succeeded")
    IN IF rows = <<>> THEN -1 ELSE rows[Len(rows)].created_at

(* The throttle test of execute_ingest without force_refresh. *)
InThrottleWindow(runsTable, source_id, t) ==
    LET last_ingest == get_last_ingest_time(runsTable, source_id)
    IN last_ingest # -1 /\ t - last_ingest < ingest_min_interval_seconds

(* One call of execute_ingest, start to end; calls do not overlap.         *)
(* force_refresh and env are drawn only where the call looks at them.      *)
ExecuteIngest ==
    /\ invocations < MaxInvocations
    /\ \E source_id \in SourceIds, force_refresh \in BOOLEAN, env \in IngestEnvs :
         /\ force_refresh =>
               (get_source(source_id) /\ InThrottleWindow(ingest_runs, source_id, now))
         /\ (~get_source(source_id)
               \/ (~force_refresh /\ InThrottleWindow(ingest_runs, source_id, now)))
              => env = DefaultEnv
         /\ LET d == [ingest_runs |-> ingest_runs,
                      failed_ingestions |-> failed_ingestions,
                      source_snapshots |-> source_snapshots, insights |-> insights,
                      memory_chunks |-> memory_chunks,
                      source_evidence_relations |-> source_evidence_relations,
                      wrote |-> {}, audited |-> {}]
            IN \E r \in {execute_ingest(d, source_id, force_refresh, now, env)} :
               /\ ingest_runs' = r.d.ingest_runs
               /\ failed_ingestions' = r.d.failed_ingestions
               /\ source_snapshots' = r.d.source_snapshots
               /\ insights' = r.d.insights
               /\ memory_chunks' = r.d.memory_chunks
               /\ source_evidence_relations' = r.d.source_evidence_relations
               /\ lastIngest' =
                    [ran |-> TRUE, source_id |-> source_id,
                     force_refresh |-> force_refresh, at |-> now,
                     path |-> r.path, raised |-> r.raised,
                     content_hash |-> r.content_hash,
                     previous_hash |-> r.previous_hash,
                     last_succeeded |-> LastSucceeded(ingest_runs, source_id),
                     runs_before |-> Len(ingest_runs),
                     wrote |-> r.d.wrote, audited |-> r.d.audited,
                     mem_failure |-> IF "insights" \in r.d.wrote
                                       THEN env.memFails ELSE "none"]
               /\ streak' =
                    CASE r.path = "persisted" ->
                           IF streak.n >= 1 /\ streak.content_hash = r.content_hash
                             THEN [streak EXCEPT !.n = @ + 1]
                             ELSE [n |-> 1, content_hash |-> r.content_hash,
                                   insights |-> Len(r.d.insights),
                                   memory_chunks |-> r.d.memory_chunks,
                                   source_evidence_relations |->
                                       r.d.source_evidence_relations]
                      [] r.path = "processing_failed" -> NoStreak
                      [] OTHER -> streak
    /\ invocations' = invocations + 1
    /\ UNCHANGED <<now, queryVars, provVars, otherVars>>

Tick ==
    /\ now < MaxTicks * TickSeconds
    /\ now' = now + TickSeconds
    /\ UNCHANGED <<tables, invocations, lastIngest, streak, queryVars, provVars,
                   otherVars>>

NextIngest == ExecuteIngest \/ Tick

SpecIngest == InitIngest /\ [][NextIngest]_vars

-----------------------------------------------------------------------------
(* Properties of the query pipeline *)

(* The stage list of the stream contract, in its mandatory order. *)
StageOrder ==
    <<"query_parsed", "enrichment_started", "provider_complete", "enrichment_complete",
      "retrieval_started", "retrieval_complete", "ranking_complete", "financial_snapshot",
      "analyst_consensus", "historical_trends", "macro_context", "social_sentiment",
      "market_news", "coverage", "filings", "insider_activity", "analyzing",
      "decision_token", "decision_ready", "narrative_started", "narrative_token",
      "narrative_ready", "scenarios_ready", "competitive_started", "competitive_token",
      "competitive_landscape", "price_history", "complete">>

StarredStages == {"provider_complete", "decision_token", "narrative_token",
                  "competitive_token"}
OptionalStages == {"analyst_consensus", "market_news", "insider_activity"}
TokenStages == {"decision_token", "narrative_token", "competitive_token"}

ListedStages == {StageOrder[i] : i \in 1..Len(StageOrder)}
Listed(s) == s \in ListedStages
Rank == [s \in ListedStages |-> CHOOSE i \in 1..Len(StageOrder) : StageOrder[i] = s]
MandatoryStages == ListedStages \ (StarredStages \cup OptionalStages)

Occurrences(seq, s) == Cardinality({i \in 1..Len(seq) : seq[i] = s})
Delivered(s) == \E i \in 1..Len(events) : events[i] = s
LastEvent == IF events = <<>> THEN "none" ELSE events[Len(events)]
StreamCompleted == spc \in {"complete", "returned"}

(* C1: the stages delivered by a stream follow the mandatory order: a      *)
(* listed stage never comes after a stage listed later, only the starred   *)
(* stages occur more than once, every mandatory stage precedes complete,   *)
(* and nothing follows complete.                                           *)
C1_StageOrder ==
    LET listed == SelectSeq(events, Listed)
        once == {i \in 1..Len(events) : events[i] \notin StarredStages}
    IN  /\ \A i \in 1..(Len(listed) - 1) :
              \/ Rank[listed[i]] < Rank[listed[i + 1]]
              \/ (listed[i] = listed[i + 1] /\ listed[i] \in StarredStages)
        /\ Cardinality({events[i] : i \in once}) = Cardinality(once)
        /\ Delivered("complete") =>
              /\ LastEvent = "complete"
              /\ MandatoryStages \subseteq {events[i] : i \in 1..Len(events)}

C1_Witness ==
    /\ LastEvent = "complete"
    /\ Occurrences(events, "provider_complete") = 2
    /\ Delivered("narrative_token")
    /\ Delivered("analyst_consensus") /\ ~Delivered("market_news")

(* C2 as stated: on a disconnect and on a passed deadline alike the stream *)
(* ends with exactly one error event.                                      *)
C2_ErrorOnDisconnectOrDeadline ==
    closedBy \in {"disconnect", "deadline"} =>
        /\ LastEvent = "error"
        /\ Occurrences(events, "error") = 1

(* C2 amended: a passed deadline ends the stream with exactly one error    *)
(* event, which is its last event; a disconnect ends the stream without    *)
(* any further event; and no event ever follows an error event.            *)
C2_ErrorOnDeadlineOnly ==
    /\ closedBy = "deadline" =>
          (LastEvent = "error" /\ Occurrences(events, "error") = 1)
    /\ closedBy = "disconnect" => (~Delivered("error") /\ Len(events) = discAt)
    /\ \A i \in 1..Len(events) : events[i] = "error" => i = Len(events)
    /\ gen = "closed" <=> closedBy # "none"

C2_Witness ==
    /\ closedBy = "deadline"
    /\ Delivered("narrative_token")
    /\ LastEvent = "error"

(* C3: a client that goes away after narrative tokens were delivered and   *)
(* before complete was delivered gets no further token and no complete     *)
(* event, and the search is not persisted.                                 *)
C3_CancelledStreamNotPersisted ==
    (/\ discAt >= 0
     /\ \E i \in 1..discAt : events[i] = "narrative_token"
     /\ \A i \in 1..discAt : events[i] # "complete") =>
        /\ \A i \in (discAt + 1)..Len(events) : events[i] \notin TokenStages
        /\ ~Delivered("complete")
        /\ search_queries = 0 /\ search_evidence = 0

(* C4 as stated: a successful query leaves one search_queries row and as   *)
(* many search_evidence rows as the report has citations.                  *)
C4_EvidenceRowPerCitation ==
    (StreamCompleted \/ batchResult = "report") =>
        (search_queries = 1 /\ search_evidence = citations)

(* C4 amended: a successful query leaves one search_queries row and one    *)
(* search_evidence row per item of top_evidence; the citations are the     *)
(* first eight of them at most.                                            *)
C4_EvidenceRowPerEvidenceItem ==
    (StreamCompleted \/ batchResult = "report") =>
        /\ search_queries = 1
        /\ search_evidence = nEvidence
        /\ citations = Min(nEvidence, CitationLimit)

C4_Witness ==
    /\ Delivered("complete") /\ nEvidence = MaxEvidence
    /\ search_evidence = MaxEvidence /\ citations = CitationLimit

C21_ProgressMonotone ==
    /\ \A i \in 1..Len(events) :
          EventProgress(events[i]) >= 0 /\ EventProgress(events[i]) <= 1000
    /\ \A i \in 1..(Len(events) - 1) :
          EventProgress(events[i]) <= EventProgress(events[i + 1])

C21_Witness ==
    /\ Delivered("provider_complete") /\ Delivered("warning")
    /\ Delivered("analyst_consensus") /\ Delivered("insider_activity")
    /\ Delivered("decision_token")
    /\ LastEvent = "error"

-----------------------------------------------------------------------------
(* Properties of the provider framework *)

HasEntry(run, p) ==
    \E i \in 1..Len(run.providers_run) : run.providers_run[i].provider = p

(* C6: a budgeted provider that has used up its daily limit when an        *)
(* enrichment run starts is skipped by that run: its fetch_company_data    *)
(* is not invoked, providers_run has no entry of it and it sends nothing.  *)
C6_ExhaustedProviderSkipped ==
    \A p \in Budgeted :
        (lastRun.ran /\ lastRun.before[p] >= DailyLimit[p]) =>
            /\ p \notin lastRun.invoked
            /\ ~HasEntry(lastRun, p)
            /\ lastRun.sent[p] = 0

(* C7: within one day the requests a budgeted provider makes, over all     *)
(* enrichment runs and queries of the process, stay within its daily       *)
(* limit.                                                                  *)
C7_DailyBudgetRespected ==
    \A p \in Budgeted : requests[p] <= DailyLimit[p]

PositionOf(p) == CHOOSE i \in 1..Len(ProviderOrder) : ProviderOrder[i] = p

EntriesOf(run, p) ==
    SelectSeq(run.providers_run, LAMBDA entry : entry.provider = p)

(* C20: a run that has an entity goes through the providers in the order   *)
(* of _get_configured_providers and through all of them, whichever of them *)
(* raised: a provider that raised has one entry, failed and with no        *)
(* records, the entries of providers_run follow the order of the           *)
(* providers, total_records is the sum of their records_stored, and the    *)
(* coverage update is called after the loop.                               *)
C20_ProviderErrorIsolation ==
    (lastRun.ran /\ lastRun.entity) =>
        /\ lastRun.attempted = ProviderOrder
        /\ \A p \in lastRun.failed :
              /\ Len(EntriesOf(lastRun, p)) = 1
              /\ ~EntriesOf(lastRun, p)[1].success
              /\ EntriesOf(lastRun, p)[1].records_stored = 0
        /\ \A i \in 1..(Len(lastRun.providers_run) - 1) :
              PositionOf(lastRun.providers_run[i].provider)
                 <= PositionOf(lastRun.providers_run[i + 1].provider)
        /\ lastRun.total_records = SumRecords(lastRun.providers_run)
        /\ lastRun.coverage_updated

C20_Witness ==
    /\ lastRun.ran /\ lastRun.entity
    /\ lastRun.failed = {ProviderOrder[1]}
    /\ lastRun.invoked = Providers
    /\ \A p \in Providers \ lastRun.failed :
          \E i \in 1..Len(lastRun.providers_run) :
              /\ lastRun.providers_run[i].provider = p
              /\ lastRun.providers_run[i].records_stored > 0
    /\ lastRun.total_records > 0
    /\ lastRun.coverage_updated

-----------------------------------------------------------------------------
(* Properties of the ingestion worker *)

(* The rows of ingest_runs the latest call added. *)
RunsLogged == SubSeq(ingest_runs, lastIngest.runs_before + 1, Len(ingest_runs))

ExpectedStatus(path) ==
    CASE path = "throttled" -> "skipped"
      [] path = "blocked" -> "blocked"
      [] path = "persisted" -> "succeeded"
      [] OTHER -> "failed"

ContentTables == {"insights", "memory_chunks", "source_evidence_relations"}

(* C8: a call without force_refresh on a registered source is throttled    *)
(* exactly when the latest succeeded run of the source is younger than     *)
(* ingest_min_interval_seconds.                                            *)
C8_ThrottledIffRecentSuccess ==
    (lastIngest.ran /\ get_source(lastIngest.source_id) /\ ~lastIngest.force_refresh) =>
        (lastIngest.path = "throttled" <=>
            (/\ lastIngest.last_succeeded # -1
             /\ lastIngest.at - lastIngest.last_succeeded < ingest_min_interval_seconds))

(* C9: an ingest whose content hash equals the latest snapshot hash of the *)
(* source writes no insight, memory chunk or graph relation, and after any *)
(* number of successive succeeded ingests of one content the insights,     *)
(* memory chunks and graph relations are those the first of them left.     *)
C9_IngestIdempotent ==
    /\ (lastIngest.path = "persisted"
          /\ lastIngest.content_hash = lastIngest.previous_hash) =>
            lastIngest.wrote \cap ContentTables = {}
    /\ streak.n >= 1 =>
          /\ Len(insights) = streak.insights
          /\ memory_chunks = streak.memory_chunks
          /\ source_evidence_relations = streak.source_evidence_relations

C9_Witness ==
    /\ streak.n >= 2
    /\ lastIngest.path = "persisted"
    /\ lastIngest.content_hash = lastIngest.previous_hash
    /\ Len(source_snapshots) >= 2 /\ Len(insights) = 1

(* C10: every call on a registered source adds exactly one row to          *)
(* ingest_runs, and its status tells what happened: skipped when           *)
(* throttled, blocked when the policy denied, succeeded when it persisted, *)
(* failed when the fetch or the processing raised.                         *)
C10_OneRunOutcomePerCall ==
    (lastIngest.ran /\ get_source(lastIngest.source_id)) =>
        /\ Len(RunsLogged) = 1
        /\ RunsLogged[1].source_id = lastIngest.source_id
        /\ RunsLogged[1].status = ExpectedStatus(lastIngest.path)

LastRow(table) == table[Len(table)]

(* C12: when upsert_document_memory or upsert_graph_relationship fails in  *)
(* an ingest of changed content, the call returns without raising, the     *)
(* snapshot and the insight it inserted are stored, and it logs one run    *)
(* with status succeeded and memory=degraded.                              *)
C12_MemoryBestEffort ==
    lastIngest.mem_failure # "none" =>
        /\ ~lastIngest.raised /\ lastIngest.path = "persisted"
        /\ lastIngest.content_hash # lastIngest.previous_hash
        /\ source_snapshots # <<>> /\ insights # <<>>
        /\ LastRow(source_snapshots) = [source_id |-> lastIngest.source_id,
                                        content_hash |-> lastIngest.content_hash]
        /\ LastRow(insights) = [source_id |-> lastIngest.source_id,
                                content_hash |-> lastIngest.content_hash]
        /\ Len(RunsLogged) = 1
        /\ RunsLogged[1].status = "succeeded"
        /\ RunsLogged[1].detail = "changed=True;memory=degraded"

C12_Witness ==
    /\ lastIngest.mem_failure = "graph"
    /\ lastIngest.previous_hash # None
    /\ [source_id |-> lastIngest.source_id, content_hash |-> lastIngest.content_hash]
          \in memory_chunks
    /\ LastRow(ingest_runs).detail = "changed=True;memory=degraded"
    /\ LastRow(failed_ingestions).error_type = "memory_write_failed"

(* C18: every repository write of a call of execute_ingest appends an      *)
(* audit event: each table the call has written (source_snapshots and      *)
(* memory_chunks included) is a table whose write came with an insert      *)
(* into audit_events.                                                      *)
C18_EveryWriteAudited ==
    lastIngest.ran => lastIngest.wrote \subseteq lastIngest.audited

-----------------------------------------------------------------------------
(* run_ingest jobs: delivery, execution and retry of the celery task *)

InitRetry ==
    /\ InitQueryVars /\ hasTicker = FALSE /\ InitProviderVars /\ InitIngestVars
    /\ InitOtherVars

(* run_ingest.delay(source_id): a message with no retries yet. *)
Delay ==
    /\ ~job.queued /\ jobs < MaxJobs
    /\ \E source_id \in SourceIds :
         job' = [queued |-> TRUE, source_id |-> source_id, retries |-> 0]
    /\ jobs' = jobs + 1
    /\ UNCHANGED <<lastAttempt, queryVars, provVars, laterVars, ingestVars, deletionVars,
                   financialVars, entityVars>>

(* A worker takes the message and runs the task to its end. *)
RunIngest ==
    /\ job.queued
    /\ \E env \in IngestEnvs :
         /\ (~get_source(job.source_id)
               \/ InThrottleWindow(ingest_runs, job.source_id, now)) => env = DefaultEnv
         /\ LET d == [ingest_runs |-> ingest_runs,
                      failed_ingestions |-> failed_ingestions,
                      source_snapshots |-> source_snapshots, insights |-> insights,
                      memory_chunks |-> memory_chunks,
                      source_evidence_relations |-> source_evidence_relations,
                      wrote |-> {}, audited |-> {}]
            IN \E a \in {run_ingest(d, job.source_id, job.retries, now, env)} :
               /\ ingest_runs' = a.r.d.ingest_runs
               /\ failed_ingestions' = a.r.d.failed_ingestions
               /\ source_snapshots' = a.r.d.source_snapshots
               /\ insights' = a.r.d.insights
               /\ memory_chunks' = a.r.d.memory_chunks
               /\ source_evidence_relations' = a.r.d.source_evidence_relations
               /\ job' = IF a.next = "retry"
                           THEN [job EXCEPT !.retries = @ + 1]
                           ELSE NoJob
               /\ lastAttempt' =
                    [ran |-> TRUE, retries |-> job.retries, exc |-> a.exc,
                     recorded |-> "failed_ingestions" \in a.r.d.wrote,
                     retryable |->
                         /\ "failed_ingestions" \in a.r.d.wrote
                         /\ a.r.d.failed_ingestions[Len(a.r.d.failed_ingestions)].retryable,
                     next |-> a.next]
    /\ UNCHANGED <<jobs, now, invocations, lastIngest, streak, queryVars, provVars, laterVars,
                   deletionVars, financialVars, entityVars>>

NextRetry == Delay \/ RunIngest

SpecRetry == InitRetry /\ [][NextRetry]_vars

-----------------------------------------------------------------------------
(* Properties of the run_ingest jobs *)

(* C11: run_ingest is retried only after a transport error and at most     *)
(* three times; every execution that fails leaves a failed_ingestions row  *)
(* whose retryable flag is true for a transport error and false for any    *)
(* other error; and an error recorded as not retryable is not retried.     *)
C11_RetryOnlyTransportRecorded ==
    lastAttempt.ran =>
        /\ lastAttempt.next = "retry" =>
              (IsHttpError(lastAttempt.exc) /\ lastAttempt.retries < max_retries)
        /\ job.retries <= max_retries
        /\ lastAttempt.exc # "none" =>
              /\ lastAttempt.recorded
              /\ lastAttempt.retryable <=> IsHttpError(lastAttempt.exc)
        /\ (lastAttempt.recorded /\ ~lastAttempt.retryable) =>
              lastAttempt.next # "retry"
-----------------------------------------------------------------------------
(* Deletion requests: the store is filled by ingests, reports and saved    *)
(* searches, and emptied by execute_deletion_request.                      *)

InitDeletion ==
    /\ InitQueryVars /\ hasTicker = FALSE /\ InitProviderVars /\ InitIngestVars
    /\ InitOtherVars

Store ==
    [ingest_runs |-> ingest_runs, failed_ingestions |-> failed_ingestions,
     source_snapshots |-> source_snapshots, insights |-> insights,
     memory_chunks |-> memory_chunks,
     source_evidence_relations |-> source_evidence_relations,
     deleted |-> deleted, reports |-> reports,
     search_evidence_table |-> search_evidence_table,
     deletion_requests |-> deletion_requests]

(* generate_report of a source that get_source finds. *)
GenerateReport ==
    /\ \E source_id \in SourceIds :
         /\ get_source(source_id) /\ reports[source_id] < MaxRows
         /\ reports' = [reports EXCEPT ![source_id] = @ + 1]
    /\ UNCHANGED <<deleted, search_evidence_table, deletion_requests, lastDeletion,
                   retryVars, queryVars, provVars, laterVars, ingestVars, financialVars,
                   entityVars>>

(* save_search_result of a query whose evidence has an item of a source:   *)
(* the items are insights and memory chunks found in the store.            *)
SaveSearchEvidence ==
    /\ \E source_id \in SourceIds :
         /\ {"insights", "memory_chunks"} \cap TablesHolding(Store, source_id) # {}
         /\ search_evidence_table[source_id] < MaxRows
         /\ search_evidence_table' = [search_evidence_table EXCEPT ![source_id] = @ + 1]
    /\ UNCHANGED <<deleted, reports, deletion_requests, lastDeletion,
                   retryVars, queryVars, provVars, laterVars, ingestVars, financialVars,
                   entityVars>>

(* POST /compliance/deletion-requests for a source that exists. *)
CreateDeletionRequest ==
    /\ Len(deletion_requests) < MaxRequests
    /\ \E source_id \in SourceIds :
         /\ source_exists(source_id)
         /\ deletion_requests' =
               Append(deletion_requests,
                      [source_id |-> source_id, status |-> "pending", detail |-> "none"])
    /\ UNCHANGED <<deleted, reports, search_evidence_table, lastDeletion,
                   retryVars, queryVars, provVars, laterVars, ingestVars, financialVars,
                   entityVars>>

(* The task execute_deletion_request, start to end, for a request that     *)
(* exists: queued when the request was created, or by                      *)
(* POST /compliance/deletion-requests/{id}/execute.                        *)
ExecuteDeletionRequest ==
    /\ \E request_id \in DOMAIN deletion_requests, fail \in {"none", "memory", "records"} :
         LET source_id == deletion_requests[request_id].source_id
         IN /\ ~source_exists(source_id) => fail = "none"
            /\ \E r \in {execute_deletion_request(Store, request_id, fail)} :
                 /\ ingest_runs' = r.st.ingest_runs
                 /\ failed_ingestions' = r.st.failed_ingestions
                 /\ source_snapshots' = r.st.source_snapshots
                 /\ insights' = r.st.insights
                 /\ memory_chunks' = r.st.memory_chunks
                 /\ source_evidence_relations' = r.st.source_evidence_relations
                 /\ deleted' = r.st.deleted
                 /\ reports' = r.st.reports
                 /\ search_evidence_table' = r.st.search_evidence_table
                 /\ deletion_requests' = r.st.deletion_requests
                 /\ lastDeletion' =
                      [ran |-> TRUE, request_id |-> request_id, source_id |-> source_id,
                       status |-> r.status, raised |-> r.raised,
                       had |-> TablesHolding(Store, source_id),
                       remaining |-> TablesHolding(r.st, source_id)]
    /\ UNCHANGED <<now, invocations, lastIngest, streak, retryVars, queryVars, provVars, laterVars,
                   financialVars, entityVars>>

NextDeletion ==
    \/ (invocations < MaxIngestsStored /\ ExecuteIngest)
    \/ GenerateReport
    \/ SaveSearchEvidence
    \/ CreateDeletionRequest
    \/ ExecuteDeletionRequest

SpecDeletion == InitDeletion /\ [][NextDeletion]_vars

-----------------------------------------------------------------------------
(* Properties of the deletion *)

(* C13: when execute_deletion_request ends with status executed for a      *)
(* source, the source is soft-deleted, so that get_source, list_sources   *)
(* and source_exists do not return it, and no snapshot, insight, report,   *)
(* search-evidence row or memory chunk of the source is left.              *)
C13_DeletionCascades ==
    lastDeletion.status = "executed" =>
        /\ lastDeletion.source_id \in deleted
        /\ ~get_source(lastDeletion.source_id)
        /\ lastDeletion.source_id \notin list_sources
        /\ ~source_exists(lastDeletion.source_id)
        /\ lastDeletion.remaining = {}
        /\ deletion_requests[lastDeletion.request_id].status = "executed"

C13_Witness ==
    /\ lastDeletion.status = "executed"
    /\ lastDeletion.had = CascadeTables
    /\ TablesHolding(Store, lastDeletion.source_id) = {}

(* C28: the status of a deletion request moves from pending through        *)
(* running to executed or to failed only, and a request that is executed   *)
(* or failed keeps its status, also when its execution is triggered again. *)
C28_DeletionStatusFinal ==
    [][\A request_id \in DOMAIN deletion_requests :
          LET before == deletion_requests[request_id].status
              after == deletion_requests'[request_id].status
          IN /\ before \in {"executed", "failed"} => after = before
             /\ before = "pending" => after \in {"pending", "executed", "failed"}]_vars
-----------------------------------------------------------------------------
(* Financial periods: the providers' writers call upsert_financial_period  *)
(* one after another or at the same time; every call is one statement of   *)
(* the database, so that calls made at the same time take effect in one    *)
(* order or the other.                                                     *)

InitFinancials ==
    /\ InitQueryVars /\ hasTicker = FALSE /\ InitProviderVars /\ InitIngestVars
    /\ InitRetryVars /\ InitDeletionVars /\ InitEntityVars /\ InitLaterVars
    /\ financial_periods \in StoredBefore /\ upserts = 0 /\ lastUpsert = NoUpsert

UpsertFinancialPeriod ==
    /\ upserts < MaxUpserts
    /\ \E call \in FinancialCalls :
         /\ financial_periods' = upsert_financial_period(financial_periods, call)
         /\ lastUpsert' = [n |-> lastUpsert.n + 1, call |-> call,
                           met |-> financial_periods,
                           prev_call |-> lastUpsert.call, prev_met |-> lastUpsert.met]
    /\ upserts' = upserts + 1
    /\ UNCHANGED <<queryVars, provVars, laterVars, ingestVars, retryVars, deletionVars, entityVars>>

NextFinancials == UpsertFinancialPeriod

SpecFinancials == InitFinancials /\ [][NextFinancials]_vars

-----------------------------------------------------------------------------
(* Properties of the financial periods *)

RowsWithKey(tbl, key) == {row \in tbl : row.key = key}

(* The statement keys of two calls are disjoint. *)
DisjointCalls(a, b) ==
    \A s \in Statements : DOMAIN Excluded(a, s) \cap DOMAIN Excluded(b, s) = {}

(* C14: two calls for one key whose statement keys are disjoint leave the  *)
(* same table in either order, and the row holds every key of both calls   *)
(* with the value the call gave it.                                        *)
C14_DisjointUpsertsCommute ==
    LET a == lastUpsert.prev_call
        b == lastUpsert.call
    IN (lastUpsert.n >= 2 /\ a.key = b.key /\ DisjointCalls(a, b)) =>
          /\ financial_periods =
                upsert_financial_period(upsert_financial_period(lastUpsert.prev_met, b), a)
          /\ \A row \in RowsWithKey(financial_periods, b.key) :
                \A s \in Statements, c \in {a, b} :
                    \A k \in DOMAIN Excluded(c, s) :
                        /\ k \in DOMAIN row.statements[s]
                        /\ row.statements[s][k] = Excluded(c, s)[k]

C14_Witness ==
    LET a == lastUpsert.prev_call
        b == lastUpsert.call
    IN /\ lastUpsert.n >= 2 /\ a.key = b.key /\ DisjointCalls(a, b)
       /\ DOMAIN a.statements = {"income_statement"}
       /\ DOMAIN b.statements = {"income_statement"}
       /\ DOMAIN Excluded(a, "income_statement") = {"revenue"}
       /\ DOMAIN Excluded(b, "income_statement") = {"eps"}
       /\ \E row \in financial_periods :
             DOMAIN row.statements["income_statement"] = {"revenue", "eps"}

(* C15: an upsert onto an existing row keeps a statement map as it is      *)
(* stored when the incoming map is empty, and otherwise stores every       *)
(* incoming key with the incoming value and every other stored key with    *)
(* its old value; and the table never has two rows with one key.           *)
C15_DeepMergeAndUniqueKey ==
    /\ \A r1, r2 \in financial_periods : r1.key = r2.key => r1 = r2
    /\ lastUpsert.n >= 1 =>
          \A old \in RowsWithKey(lastUpsert.met, lastUpsert.call.key) :
             /\ RowsWithKey(financial_periods, lastUpsert.call.key) # {}
             /\ \A new \in RowsWithKey(financial_periods, lastUpsert.call.key),
                   s \in Statements :
                   LET incoming == IF s \in DOMAIN lastUpsert.call.statements
                                     THEN lastUpsert.call.statements[s]
                                     ELSE EmptyObject
                       stored == old.statements[s]
                       result == new.statements[s]
                   IN IF DOMAIN incoming = {}
                        THEN result = stored
                        ELSE /\ DOMAIN result = DOMAIN stored \cup DOMAIN incoming
                             /\ \A k \in DOMAIN incoming : result[k] = incoming[k]
                             /\ \A k \in DOMAIN stored \ DOMAIN incoming :
                                   result[k] = stored[k]

C15_Witness ==
    /\ lastUpsert.n >= 1
    /\ lastUpsert.call.statements = [s \in {"income_statement"} |->
                                       [k \in {"revenue"} |-> 2]]
    /\ \E old \in RowsWithKey(lastUpsert.met, lastUpsert.call.key) :
          old.statements["income_statement"] = [k \in JsonKeys |-> 1]
    /\ \E new \in financial_periods :
          /\ new.key = lastUpsert.call.key
          /\ new.statements["income_statement"]["revenue"] = 2
          /\ new.statements["income_statement"]["eps"] = 1
    /\ Cardinality(financial_periods) = 1
-----------------------------------------------------------------------------
(* Entities: two callers of resolve_entity, as two queries served at the   *)
(* same time are.  A caller looks the entity up, asks the external         *)
(* services, and upserts the row afterwards.                               *)

InitEntities ==
    /\ InitQueryVars /\ hasTicker = FALSE /\ InitProviderVars /\ InitIngestVars
    /\ InitOtherVars

(* resolve_entity up to the calls of the external services.  A lookup that *)
(* finds a row, or a symbol search without a result, ends the call.        *)
ResolveLookup(p) ==
    /\ ~resolving[p].busy /\ resolves < MaxResolves
    /\ \E query_text \in QueryTexts,
          pre_resolved_ticker \in {<<>>} \cup {row.ticker : row \in entities},
          symbol \in YahooSymbols \cup {<<>>}, fmp_name \in FmpNames :
         LET ticker == IF pre_resolved_ticker # <<>> THEN pre_resolved_ticker ELSE symbol
             yahoo_name == IF pre_resolved_ticker # <<>> THEN <<>> ELSE YahooName
         IN /\ pre_resolved_ticker # <<>> => symbol = <<>>
            /\ resolving' =
                  IF ticker = <<>>
                       \/ FoundInCache(entities, query_text, pre_resolved_ticker, ticker)
                    THEN resolving
                    ELSE [resolving EXCEPT ![p] =
                            [busy |-> TRUE, query_text |-> query_text, ticker |-> ticker,
                             name |-> FinalName(fmp_name, yahoo_name, query_text),
                             aliases |-> BuildAliases(query_text, yahoo_name, ticker)]]
    /\ resolves' = resolves + 1
    /\ UNCHANGED <<entities, lastEntityWrite, queryVars, provVars, laterVars, ingestVars, retryVars,
                   deletionVars, financialVars>>

(* The _upsert_entity that ends resolve_entity. *)
ResolveUpsert(p) ==
    /\ resolving[p].busy
    /\ LET call == resolving[p]
           before == {row \in entities : row.ticker = call.ticker}
           after == upsert_entity(entities, call)
       IN /\ entities' = after
          /\ lastEntityWrite' =
                [ran |-> TRUE, query_text |-> call.query_text, ticker |-> call.ticker,
                 existed |-> before # {},
                 aliases_before |-> UNION {row.aliases : row \in before},
                 aliases_after |->
                     UNION {row.aliases : row \in {r \in after : r.ticker = call.ticker}},
                 name_after |-> call.name]
    /\ resolving' = [resolving EXCEPT ![p] = Idle]
    /\ UNCHANGED <<resolves, queryVars, provVars, laterVars, ingestVars, retryVars, deletionVars,
                   financialVars>>

NextEntities == \E p \in Resolvers : ResolveLookup(p) \/ ResolveUpsert(p)

SpecEntities == InitEntities /\ [][NextEntities]_vars

-----------------------------------------------------------------------------
(* Properties of the entities *)

(* C16: the aliases of every row contain the lowered name and the lowered  *)
(* ticker of the row, and an upsert onto an existing row stores the union  *)
(* of the aliases the row had with the lowered query, name and ticker.     *)
C16_AliasesUnion ==
    /\ \A row \in entities :
          Lower(row.name) \in row.aliases /\ Lower(row.ticker) \in row.aliases
    /\ (lastEntityWrite.ran /\ lastEntityWrite.existed) =>
          lastEntityWrite.aliases_after =
              lastEntityWrite.aliases_before
                \cup {Lower(lastEntityWrite.query_text), Lower(lastEntityWrite.name_after),
                      Lower(lastEntityWrite.ticker)}

(* C17: no two rows have the same upper(ticker). *)
C17_TickerUniqueIgnoringCase ==
    \A r1, r2 \in entities : Upper(r1.ticker) = Upper(r2.ticker) => r1 = r2

-----------------------------------------------------------------------------
(* LLM calls: the steps of ollama_generate_async *)

InitLLM ==
    /\ InitQueryVars /\ hasTicker = FALSE /\ InitProviderVars /\ InitIngestVars
    /\ InitOtherVars

notLlmVars == <<queryVars, provVars, ingestVars, retryVars, deletionVars,
                financialVars, entityVars, policyVars, scenarioVars, restVars>>

(* The call starts; the event loop starts the tasks of asyncio.gather in   *)
(* the order it was given them.  _get_semaphore finds the global set and   *)
(* returns it, or finds it None and goes on to create the semaphore.       *)
Enter(c) ==
    /\ pc[c] = "start" /\ ~Busy(LoopOf(c))
    /\ \A i \in 1..(c[2] - 1) : pc[<<c[1], i>>] # "start"
    /\ pc' = [pc EXCEPT ![c] = IF semaphore = 0 THEN "creating" ELSE "acquire"]
    /\ sem_of' = [sem_of EXCEPT ![c] = semaphore]
    /\ UNCHANGED <<semaphore, sems, notLlmVars>>

(* _semaphore = asyncio.Semaphore(settings.ollama_max_concurrent); return  *)
Create(c) ==
    /\ pc[c] = "creating"
    /\ sems' = Append(sems, Semaphore(ollama_max_concurrent))
    /\ semaphore' = Len(sems) + 1
    /\ sem_of' = [sem_of EXCEPT ![c] = Len(sems) + 1]
    /\ pc' = [pc EXCEPT ![c] = "acquire"]
    /\ UNCHANGED notLlmVars

(* async with sem, Semaphore.acquire up to its await: a free semaphore is  *)
(* taken in the next step; a locked one binds the semaphore to the running *)
(* loop if it has none, raises RuntimeError in a loop other than the one   *)
(* it is bound to, and queues the caller otherwise.  The RuntimeError      *)
(* leaves ollama_generate_async, whose try is inside the async with.       *)
AcquireCheck(c) ==
    /\ pc[c] = "acquire"
    /\ LET s == sems[sem_of[c]]
           bound == IF s.loop = 0 THEN LoopOf(c) ELSE s.loop
       IN IF ~locked(s)
            THEN /\ pc' = [pc EXCEPT ![c] = "taking"]
                 /\ UNCHANGED sems
          ELSE IF bound # LoopOf(c)
            THEN /\ pc' = [pc EXCEPT ![c] = "raised"]
                 /\ UNCHANGED sems
          ELSE /\ pc' = [pc EXCEPT ![c] = "waiting"]
               /\ sems' = [sems EXCEPT ![sem_of[c]] =
                              [@ EXCEPT !.loop = bound, !.waiters = Append(@, c)]]
    /\ UNCHANGED <<semaphore, sem_of, notLlmVars>>

(* self._value -= 1; return True: litellm.acompletion is awaited. *)
Take(c) ==
    /\ pc[c] = "taking"
    /\ sems' = [sems EXCEPT ![sem_of[c]] = [@ EXCEPT !.value = @ - 1]]
    /\ pc' = [pc EXCEPT ![c] = "in_flight"]
    /\ UNCHANGED <<semaphore, sem_of, notLlmVars>>

(* A woken waiter runs on: it leaves the queue, wakes further waiters      *)
(* while slots are free, and awaits litellm.acompletion.                   *)
Resume(c) ==
    /\ \/ pc[c] = "granted"
       \/ pc[c] = "granted_unnotified" /\ LoopRuns(LoopOf(c))
    /\ ~Busy(LoopOf(c))
    /\ LET s == sems[sem_of[c]]
           r == wake_while_free([s EXCEPT !.waiters = Without(@, c)], pc, LoopOf(c))
       IN /\ sems' = [sems EXCEPT ![sem_of[c]] = r.sem]
          /\ pc' = [r.pc EXCEPT ![c] = "in_flight"]
    /\ UNCHANGED <<semaphore, sem_of, notLlmVars>>

(* litellm.acompletion ends, with a response or with an exception that     *)
(* the except turns into None; either way the async with releases.         *)
Finish(c) ==
    /\ pc[c] = "in_flight" /\ ~Busy(LoopOf(c))
    /\ \E failed \in BOOLEAN :
         LET r == release(sems[sem_of[c]], pc, LoopOf(c))
         IN /\ sems' = [sems EXCEPT ![sem_of[c]] = r.sem]
            /\ pc' = [r.pc EXCEPT ![c] = IF failed THEN "returned_none" ELSE "returned"]
    /\ UNCHANGED <<semaphore, sem_of, notLlmVars>>

NextLLM ==
    \E c \in Calls :
        Enter(c) \/ Create(c) \/ AcquireCheck(c) \/ Take(c) \/ Resume(c) \/ Finish(c)

SpecLLM == InitLLM /\ [][NextLLM]_vars

-----------------------------------------------------------------------------
(* Properties of the LLM calls *)

InFlight == {c \in Calls : pc[c] = "in_flight"}

(* C19: at most ollama_max_concurrent calls of ollama_generate_async are   *)
(* in flight at any instant, over all the queries of the process, and no   *)
(* call that finds the semaphore taken ends without having acquired it.    *)
C19_SemaphoreBoundsInFlight ==
    /\ Cardinality(InFlight) <= ollama_max_concurrent
    /\ \A c \in Calls : pc[c] # "raised"
-----------------------------------------------------------------------------
(* The policy check *)

oldVars == <<queryVars, provVars, ingestVars, retryVars, deletionVars,
             financialVars, entityVars, llmVars>>

notPolicyVars == <<oldVars, scenarioVars, restVars>>

InitPolicy ==
    /\ InitQueryVars /\ hasTicker = FALSE /\ InitProviderVars /\ InitIngestVars
    /\ InitOtherVars

(* One call of validate_source_policy.  The robots outcome is drawn only   *)
(* where the call gets to ask for robots.txt.                              *)
ValidateSourcePolicy ==
    /\ \E netloc \in Netlocs, settings \in PolicySettings, robots \in RobotsOutcomes :
         LET d == domain_allowed(netloc, settings)
             asked == /\ ~d.raised /\ d.ok /\ settings.ingest_policy_require_robots
                      /\ ~urlparse(netloc).raised
         IN /\ ~asked => robots = "allowed"
            /\ policy' = [checked |-> TRUE, netloc |-> netloc, settings |-> settings,
                          asked |-> asked, robots |-> robots,
                          decision |-> validate_source_policy(netloc, settings, robots)]
    /\ UNCHANGED notPolicyVars

NextPolicy == ValidateSourcePolicy

SpecPolicy == InitPolicy /\ [][NextPolicy]_vars

(* C22: validate_source_policy never raises; a URL whose host is outside a *)
(* non-empty allow-list is denied; and when the request for robots.txt     *)
(* fails the decision is deny with ingest_policy_deny_on_robots_error set  *)
(* and allow otherwise.                                                    *)
C22_PolicyNeverCrashes ==
    policy.checked =>
        /\ ~policy.decision.raised
        /\ policy.decision.allowed \in BOOLEAN
        /\ (/\ policy.settings.ingest_allowed_domains # {}
            /\ ~domain_allowed(policy.netloc, policy.settings).ok)
              => ~policy.decision.allowed
        /\ (policy.asked /\ policy.robots = "error") =>
              (policy.decision.allowed
                 = ~policy.settings.ingest_policy_deny_on_robots_error)
-----------------------------------------------------------------------------
(* The scenarios *)

notScenarioVars == <<oldVars, policyVars, restVars>>

InitScenarios ==
    /\ InitQueryVars /\ hasTicker = FALSE /\ InitProviderVars /\ InitIngestVars
    /\ InitOtherVars

(* Stage 13 of the stream: _build_scenarios.  The confidence is drawn only *)
(* where the arithmetic scenarios are built.                               *)
StreamScenarios ==
    /\ \E answer \in LlmAnswers, confidence \in Confidences :
         /\ Len(answer) = 3 => confidence = 50
         /\ scenario' = [built |-> TRUE, by |-> "stream", parallel |-> <<>>,
                         answer |-> answer, confidence |-> confidence,
                         probabilities |-> build_scenarios(answer, confidence)]
    /\ UNCHANGED notScenarioVars

(* Step 9 of the batch query. *)
BatchScenarios ==
    /\ \E parallel \in LlmAnswers, answer \in LlmAnswers, confidence \in Confidences :
         /\ Len(parallel) = 3 => answer = <<>>
         /\ (Len(parallel) = 3 \/ Len(answer) = 3) => confidence = 50
         /\ scenario' = [built |-> TRUE, by |-> "batch", parallel |-> parallel,
                         answer |-> answer, confidence |-> confidence,
                         probabilities |-> batch_scenarios(parallel, answer, confidence)]
    /\ UNCHANGED notScenarioVars

NextScenarios == StreamScenarios \/ BatchScenarios

SpecScenarios == InitScenarios /\ [][NextScenarios]_vars

(* C23: the scenarios that are returned are three and their probabilities  *)
(* sum to 1.0 within a thousandth, from the LLM and from the arithmetic    *)
(* fallback alike.                                                         *)
C23_ScenarioProbabilitiesSumToOne ==
    scenario.built =>
        /\ Len(scenario.probabilities) = 3
        /\ Sum3(scenario.probabilities) >= 999
        /\ Sum3(scenario.probabilities) <= 1001
-----------------------------------------------------------------------------
(* chunk_text *)

notChunkVars == <<oldVars, policyVars, scenarioVars, workerVars, throttleVars>>

(* The calls of chunk_text that are tried, one in a behaviour. *)
ChunkCalls ==
    {[called |-> FALSE, text |-> TextOf(kind, length), chunk_size |-> chunk_size,
      overlap |-> overlap] :
        kind \in TextKinds, length \in TextLengths, chunk_size \in ChunkSizes,
        overlap \in Overlaps}

InitChunking ==
    /\ InitQueryVars /\ hasTicker = FALSE /\ InitProviderVars /\ InitIngestVars
    /\ InitRetryVars /\ InitDeletionVars /\ InitFinancialVars /\ InitEntityVars
    /\ InitLlmVars /\ InitPolicyVars /\ InitScenarioVars /\ InitWorkerVars
    /\ InitThrottleVars
    /\ chunking \in ChunkCalls

ChunkText ==
    /\ ~chunking.called
    /\ \E r \in {chunk_text(chunking.text, chunking.chunk_size, chunking.overlap)} :
         chunking' = [called |-> TRUE, text |-> chunking.text,
                      chunk_size |-> chunking.chunk_size,
                      overlap |-> chunking.overlap, result |-> r]
    /\ UNCHANGED notChunkVars

NextChunking == ChunkText

SpecChunking == InitChunking /\ [][NextChunking]_vars

(* The window and the overlap chunk_text works with. *)
WindowSize == Maximum(chunking.chunk_size, min_length)
WindowOverlap == Minimum(Maximum(chunking.overlap, 0), WindowSize - 1)

-----------------------------------------------------------------------------
(* Ingestion jobs of one source run by several workers, next to deletion   *)
(* requests and add_source.  Every job is a run_ingest task, which calls   *)
(* execute_ingest with force_refresh False; each action is one repository  *)
(* call of the job with what the job does before the next one.             *)

InitWorkers ==
    /\ InitQueryVars /\ hasTicker = FALSE /\ InitProviderVars /\ InitIngestVars
    /\ InitOtherVars

WorkerDb ==
    [ingest_runs |-> ingest_runs, failed_ingestions |-> failed_ingestions,
     source_snapshots |-> source_snapshots, insights |-> insights,
     memory_chunks |-> memory_chunks,
     source_evidence_relations |-> source_evidence_relations,
     wrote |-> {}, audited |-> {}]

StoreTables(d) ==
    /\ ingest_runs' = d.ingest_runs
    /\ failed_ingestions' = d.failed_ingestions
    /\ source_snapshots' = d.source_snapshots
    /\ insights' = d.insights
    /\ memory_chunks' = d.memory_chunks
    /\ source_evidence_relations' = d.source_evidence_relations

notWorkerVars ==
    <<now, invocations, lastIngest, streak, queryVars, provVars, retryVars,
      deletionVars, financialVars, entityVars, llmVars, policyVars, scenarioVars,
      chunkVars, throttleVars, revived>>

Goes(w, at) == worker' = [worker EXCEPT ![w].pc = at] /\ UNCHANGED ended

Ends(w, how) == worker' = [worker EXCEPT ![w] = NoWork] /\ ended' = how

(* A worker takes a run_ingest task: db.get_source, and on a miss          *)
(* log_failed_ingestion and the ValueError.                                *)
GetSource(w) ==
    /\ worker[w].pc = "idle"
    /\ starts < MaxStarts
    /\ starts' = starts + 1
    /\ overlapped' = (overlapped \/ \E v \in Workers : worker[v].pc # "idle")
    /\ \E source_id \in RegisteredSources :
         IF get_source(source_id)
           THEN /\ worker' = [worker EXCEPT ![w] =
                                 [NoWork EXCEPT !.pc = "throttle",
                                                !.source_id = source_id]]
                /\ UNCHANGED <<tables, ended>>
           ELSE /\ StoreTables(log_failed_ingestion(WorkerDb, source_id,
                                                    "SourceNotFound", FALSE))
                /\ Ends(w, "not_found")
    /\ UNCHANGED notWorkerVars

(* db.get_last_ingest_time, and inside the interval log_ingest_run with    *)
(* status skipped.                                                         *)
CheckThrottle(w) ==
    /\ worker[w].pc = "throttle"
    /\ IF InThrottleWindow(ingest_runs, worker[w].source_id, now)
         THEN /\ StoreTables(log_ingest_run(WorkerDb, worker[w].source_id, "skipped",
                                            "throttled_min_interval", now))
              /\ Ends(w, "skipped")
         ELSE /\ Goes(w, "fetch")
              /\ UNCHANGED tables
    /\ UNCHANGED <<starts, overlapped, notWorkerVars>>

(* validate_source_policy, connector.fetch, normalize_content and          *)
(* db.get_latest_snapshot_hash with evaluate_change.  In these jobs the    *)
(* policy allows the source and the fetch succeeds.                        *)
FetchAndEvaluate(w) ==
    /\ worker[w].pc = "fetch"
    /\ \E raw \in FetchedContents :
         LET source_id == worker[w].source_id
             evaluation ==
                 evaluate_change(normalize_content(raw),
                                 get_latest_snapshot_hash(source_snapshots, source_id))
         IN worker' = [worker EXCEPT ![w].pc = "snapshot",
                                     ![w].content_hash = evaluation.content_hash,
                                     ![w].has_changed = evaluation.has_changed]
    /\ UNCHANGED <<tables, starts, overlapped, ended, notWorkerVars>>

(* db.insert_snapshot *)
InsertSnapshot(w) ==
    /\ worker[w].pc = "snapshot"
    /\ StoreTables(insert_snapshot(WorkerDb, worker[w].source_id, worker[w].content_hash))
    /\ Goes(w, IF worker[w].has_changed THEN "insight" ELSE "log")
    /\ UNCHANGED <<starts, overlapped, notWorkerVars>>

(* db.insert_insight *)
InsertInsight(w) ==
    /\ worker[w].pc = "insight"
    /\ StoreTables(insert_insight(WorkerDb, worker[w].source_id, worker[w].content_hash))
    /\ Goes(w, "memory")
    /\ UNCHANGED <<starts, overlapped, notWorkerVars>>

(* upsert_document_memory and upsert_graph_relationship, which succeed in  *)
(* these jobs.                                                             *)
WriteMemory(w) ==
    /\ worker[w].pc = "memory"
    /\ StoreTables(upsert_graph_relationship(
                      upsert_document_memory(WorkerDb, worker[w].source_id,
                                             worker[w].content_hash),
                      worker[w].source_id))
    /\ Goes(w, "log")
    /\ UNCHANGED <<starts, overlapped, notWorkerVars>>

(* db.log_ingest_run with status succeeded, and the return. *)
LogSucceeded(w) ==
    /\ worker[w].pc = "log"
    /\ StoreTables(log_ingest_run(WorkerDb, worker[w].source_id, "succeeded",
                                  "changed", now))
    /\ Ends(w, "succeeded")
    /\ UNCHANGED <<starts, overlapped, notWorkerVars>>

(* The job ends between insert_snapshot and insert_insight: insert_insight *)
(* raises, or the worker process is stopped.                               *)
Interrupted(w) ==
    /\ worker[w].pc = "insight"
    /\ Ends(w, "interrupted")
    /\ UNCHANGED <<tables, starts, overlapped, notWorkerVars>>

(* db.add_source for the URL of a source that is in the table: from        *)
(* POST /sources, _enrich_for_query, the stream's enrichment stage or      *)
(* DdgProvider._register_sources.                                          *)
AddSource ==
    /\ \E source_id \in RegisteredSources :
         /\ deleted' = add_source(deleted, source_id)
         /\ revived' = IF source_id \in deleted THEN revived \cup {source_id}
                                                ELSE revived
    /\ UNCHANGED <<reports, search_evidence_table, deletion_requests, lastDeletion,
                   ingestVars, queryVars, provVars, retryVars, financialVars,
                   entityVars, llmVars, policyVars, scenarioVars, chunkVars,
                   throttleVars, worker, starts, ended, overlapped>>

WorkerStep(w) ==
    \/ GetSource(w)
    \/ CheckThrottle(w)
    \/ FetchAndEvaluate(w)
    \/ InsertSnapshot(w)
    \/ InsertInsight(w)
    \/ WriteMemory(w)
    \/ LogSucceeded(w)
    \/ Interrupted(w)

(* The jobs run within one clock tick. *)
NextWorkers ==
    \/ \E w \in Workers : WorkerStep(w)
    \/ CreateDeletionRequest
    \/ ExecuteDeletionRequest
    \/ AddSource

SpecWorkers == InitWorkers /\ [][NextWorkers]_vars
-----------------------------------------------------------------------------
(* Properties of the jobs run side by side *)

AllIdle == \A w \in Workers : worker[w].pc = "idle"

(* The snapshots of a sequence whose hash is not that of the one before. *)
ChangesIn(snapshots) ==
    {i \in 2..Len(snapshots) :
        snapshots[i].content_hash # snapshots[i - 1].content_hash}

SucceededRuns(source_id) ==
    SelectSeq(ingest_runs, LAMBDA row : row.source_id = source_id
                                          /\ row.status = "succeeded")

(* C25: jobs of one source run side by side leave what some order of them  *)
(* one after the other leaves: no two succeeded runs of the source lie     *)
(* less than the minimal interval apart, and the source has no more        *)
(* insights than its snapshots show changes of content (the first          *)
(* snapshot counted as one).  No deletion takes part.                      *)
C25_ConcurrentJobsSerializable ==
    deletion_requests = <<>> =>
        \A source_id \in RegisteredSources :
            LET succeeded == SucceededRuns(source_id)
                snapshots == RowsOf(source_snapshots, source_id)
            IN /\ \A i \in 1..Len(succeeded), j \in 1..Len(succeeded) :
                     i < j => succeeded[j].created_at - succeeded[i].created_at
                                 >= ingest_min_interval_seconds
               /\ Len(RowsOf(insights, source_id))
                     <= Cardinality(ChangesIn(snapshots))
                          + (IF snapshots = <<>> THEN 0 ELSE 1)

(* C26: when a deletion request of a source has been executed and every    *)
(* ingestion job has ended, the job that was in flight among them, no      *)
(* snapshot, insight, memory chunk or graph relation of the source is left *)
(* and the source is soft-deleted.  No add_source takes part.              *)
C26_DeletionWinsOverIngestInFlight ==
    (lastDeletion.status = "executed" /\ AllIdle /\ revived = {}) =>
        LET source_id == lastDeletion.source_id
        IN /\ source_id \in deleted
           /\ RowsOf(source_snapshots, source_id) = <<>>
           /\ RowsOf(insights, source_id) = <<>>
           /\ \A c \in memory_chunks : c.source_id # source_id
           /\ \A c \in source_evidence_relations : c.source_id # source_id

(* C27: when the jobs have run one after the other and the latest of them  *)
(* has ended with succeeded, every snapshot of a source whose hash is not  *)
(* that of the snapshot stored before it has an insight of the source with *)
(* its hash, also if an earlier job has ended between the snapshot and the *)
(* insight.  No deletion takes part.                                       *)
C27_ChangedSnapshotHasInsight ==
    (AllIdle /\ ~overlapped /\ ended = "succeeded" /\ deletion_requests = <<>>) =>
        \A source_id \in RegisteredSources :
            LET snapshots == RowsOf(source_snapshots, source_id)
                found == RowsOf(insights, source_id)
            IN \A i \in ChangesIn(snapshots) :
                  \E k \in 1..Len(found) :
                      found[k].content_hash = snapshots[i].content_hash

(* C29: a source that is soft-deleted stays so, and no snapshot and no     *)
(* insight is stored under its id, whatever runs later.                    *)
C29_DeletedSourceStaysDeleted ==
    [][\A source_id \in deleted :
          /\ source_id \in deleted'
          /\ ~get_source(source_id)'
          /\ Len(RowsOf(source_snapshots', source_id))
                <= Len(RowsOf(source_snapshots, source_id))
          /\ Len(RowsOf(insights', source_id)) <= Len(RowsOf(insights, source_id))]_vars
-----------------------------------------------------------------------------
(* The throttle over a time without end: the one registered source is      *)
(* requested for ever, by run_ingest tasks one after the other, the policy *)
(* allows it and every fetch succeeds.                                     *)

InitThrottle ==
    /\ InitQueryVars /\ hasTicker = FALSE /\ InitProviderVars /\ InitIngestVars
    /\ InitOtherVars

notThrottleVars == <<oldVars, policyVars, scenarioVars, chunkVars, workerVars>>

(* One call of execute_ingest with force_refresh False, start to end: it   *)
(* logs skipped inside the interval and succeeded else.                    *)
RequestIngest ==
    /\ \E source_id \in RegisteredSources :
         recent' = IF InThrottleWindow(RunsOfAges(recent, source_id), source_id, 0)
                     THEN [recent EXCEPT !["skipped"] = 0]
                     ELSE [recent EXCEPT !["succeeded"] = 0]
    /\ UNCHANGED notThrottleVars

(* Time goes on by a second or by a tick. *)
Pass ==
    /\ \E seconds \in {1, TickSeconds} : recent' = Aged(recent, seconds)
    /\ UNCHANGED notThrottleVars

NextThrottle == RequestIngest \/ Pass

(* Requests keep coming and time keeps going on. *)
SpecThrottle ==
    /\ InitThrottle /\ [][NextThrottle]_vars
    /\ WF_vars(RequestIngest) /\ WF_vars(Pass)

(* C30: a source that is requested again and again for ever, at whatever   *)
(* rate, is ingested with outcome succeeded again and again for ever.      *)
C30_RequestedForeverSucceedsForever == []<>(recent["succeeded"] = 0)
=============================================================================
